---- MODULE Spec2Model ----
(***************************************************************************)
(* TextSourceMap (Source Map v3): the decoder of the mappings string, the  *)
(* forward and reverse indices built on the first query, and the query     *)
(* operations findEntry, findEntryRanges, sourceLineMapping,               *)
(* findReverseEntries, findReverseRanges and findRanges.                   *)
(*                                                                         *)
(* JavaScript values are represented as follows.  An array is a sequence;  *)
(* array indices are the 0-based indices of the code, read with At.  A     *)
(* value that may be null or undefined (json, mappingsInternal,            *)
(* reverseMappings, content, sourceLineNumber, a query's entry result) is  *)
(* the empty sequence Null or the one-element sequence Some(v).  An absent *)
(* string (sourceURL, name) is the string Undefined, and an absent array   *)
(* or string field of a payload (sources, mappings) is Missing.            *)
(***************************************************************************)
EXTENDS Integers, Sequences, FiniteSets, TLC

\* a TextSourceMap, the module's WeakMap, and the last query made on the map
VARIABLES json, mappingsInternal, sourceInfos, sourceMapToSourceList, call
\* a second TextSourceMap
VARIABLES other
\* a call of TextSourceMap.load
VARIABLES loading
\* a SourceMapManager, the inspected URL of its target, the loads it started, the
\* promises it handed out, and what its last operation exposed to the caller
VARIABLES isEnabled, inspectedURL, clientData, sourceMaps, events, loads, promises, outcome

mapVars == <<json, mappingsInternal, sourceInfos, sourceMapToSourceList, call>>
managerVars ==
  <<isEnabled, inspectedURL, clientData, sourceMaps, events, loads, promises, outcome>>
vars == <<mapVars, other, loading, managerVars>>

(***************************************************************************)
(* Bounds of the model.                                                    *)
(***************************************************************************)
\* segments of one payload, over all its sections
MaxSegments == 3
\* events a SourceMapManager dispatches in one run
MaxEvents == 5
\* events dispatched or due after which the callers of a manager whose loads all
\* settle stop
MaxSettlingEvents == 4
\* segments of the mappings string given to parseMap alone
MaxParseSegments == 3
\* characters of the string given to decodeVLQ alone
MaxFieldLength == 3
\* characters of a mappings string of any characters
MaxMappingsLength == 5
\* the queried lines are 0..MaxQueryLine, the queried columns 0..MaxQueryColumn
MaxQueryLine == 1
MaxQueryColumn == 2

(***************************************************************************)
(* Program constants.                                                      *)
(***************************************************************************)
VLQ_BASE_SHIFT == 5
VLQ_BASE_MASK == 31
VLQ_CONTINUATION_MASK == 32
\* 2 ** 31 - 1, the end of a range that no following entry closes
MaxInt32 == 2147483647

Null == <<>>
Some(v) == <<v>>
Undefined == "undefined"
Missing == <<Undefined>>
At(array, i) == array[i + 1]
Slice(array, from, to) == SubSeq(array, from + 1, to)

base64Digits ==
  << "A","B","C","D","E","F","G","H","I","J","K","L","M","N","O","P",
     "Q","R","S","T","U","V","W","X","Y","Z","a","b","c","d","e","f",
     "g","h","i","j","k","l","m","n","o","p","q","r","s","t","u","v",
     "w","x","y","z","0","1","2","3","4","5","6","7","8","9","+","/" >>

\* base64Map.get(char) || 0
base64Map(char) ==
  IF \E i \in 1..Len(base64Digits) : base64Digits[i] = char
  THEN (CHOOSE i \in 1..Len(base64Digits) : base64Digits[i] = char) - 1
  ELSE 0

(***************************************************************************)
(* x << shift on a digit x < 32: the shift count is taken modulo 32 and    *)
(* the result is a signed 32-bit integer.  The numbers of the model are    *)
(* themselves 32-bit integers, so the powers of two stay below 2 ^ 31.     *)
(***************************************************************************)
ShiftLeft(x, shift) ==
  LET s == shift % 32
  IN  IF s = 0 THEN x
      ELSE (x % 2 ^ (31 - s)) * 2 ^ s
           + (IF (x \div 2 ^ (31 - s)) % 2 = 1 THEN -2147483647 - 1 ELSE 0)

(***************************************************************************)
(* StringCharIterator: a string is a sequence of one-character strings,    *)
(* the position is 0-based; charAt past the end is the empty string.       *)
(***************************************************************************)
peek(string, position) ==
  IF position < Len(string) THEN At(string, position) ELSE ""

hasNext(string, position) == position < Len(string)

isSeparator(char) == char = "," \/ char = ";"

(***************************************************************************)
(* decodeVLQ: reads characters while the continuation bit is set; returns  *)
(* the decoded number and the iterator's new position.                     *)
(***************************************************************************)
RECURSIVE decodeVLQLoop(_, _, _, _)
decodeVLQLoop(string, position, result, shift) ==
  LET digit == base64Map(peek(string, position))
      sum   == result + ShiftLeft(digit % (VLQ_BASE_MASK + 1), shift)
  IN  IF (digit \div VLQ_CONTINUATION_MASK) % 2 = 1
      THEN decodeVLQLoop(string, position + 1, sum, shift + VLQ_BASE_SHIFT)
      ELSE [result |-> sum, position |-> position + 1]

\* a variant that returns the assembled value as it is, sign bit included
decodeVLQUnsigned(string, position) == [value |-> decodeVLQLoop(string, position, 0, 0).result, position |-> decodeVLQLoop(string, position, 0, 0).position]

\* a variant that leaves the iterator where it was
decodeVLQPeeking(string, position) == [value |-> decodeVLQLoop(string, position, 0, 0).result, position |-> position]

decodeVLQ(string, position) ==
  LET r        == decodeVLQLoop(string, position, 0, 0)
      negative == r.result % 2 = 1
      shifted  == r.result \div 2
  IN  [value |-> IF negative THEN -shifted ELSE shifted, position |-> r.position]

(***************************************************************************)
(* SourceMapEntry.                                                         *)
(***************************************************************************)
SourceMapEntry(lineNumber, columnNumber, sourceURL, sourceLineNumber, sourceColumnNumber, name) ==
  [lineNumber |-> lineNumber, columnNumber |-> columnNumber, sourceURL |-> sourceURL,
   sourceLineNumber |-> sourceLineNumber, sourceColumnNumber |-> sourceColumnNumber,
   name |-> name]

compare(entry1, entry2) ==
  IF entry1.lineNumber # entry2.lineNumber
  THEN entry1.lineNumber - entry2.lineNumber
  ELSE entry1.columnNumber - entry2.columnNumber

\* a || b on numbers
OrElse(a, b) == IF a # 0 THEN a ELSE b

(***************************************************************************)
(* Array.prototype.sort with SourceMapEntry.compare: a stable sort.        *)
(***************************************************************************)
RECURSIVE insertEntry(_, _)
insertEntry(sorted, entry) ==
  IF sorted = <<>> THEN <<entry>>
  ELSE IF compare(sorted[Len(sorted)], entry) <= 0 THEN Append(sorted, entry)
  ELSE Append(insertEntry(SubSeq(sorted, 1, Len(sorted) - 1), entry), sorted[Len(sorted)])

RECURSIVE sortEntries(_)
sortEntries(entries) ==
  IF entries = <<>> THEN <<>>
  ELSE insertEntry(sortEntries(SubSeq(entries, 1, Len(entries) - 1)), entries[Len(entries)])

(***************************************************************************)
(* URLs.  A URL is a string of the model, so the two library functions of  *)
(* Common.ParsedURL that parseSources calls are tables over the hrefs the  *)
(* payloads use: a relative href is completed against the base URL, an     *)
(* absolute one is returned as it is.  The payloads carry no sourceRoot,   *)
(* so that sourceRoot.concat(href) is href.                                *)
(***************************************************************************)
compiledURLInternal == "http://h/gen.js"
sourceMappingURL == "http://h/gen.js.map"
\* sourceMappingURL.startsWith('data:') ? compiledURL : sourceMappingURL
baseURL == sourceMappingURL
\* the source map URL, and so the base URL, of a second map of the same payload
otherBaseURL == "http://g/gen.js.map"

RelativeHrefs == {"a.ts", "b.ts", "gen.js"}

isRelativeURL(href) == href \in RelativeHrefs

completeURL(base, href) ==
  IF ~isRelativeURL(href) THEN href
  ELSE IF base = "http://g/gen.js.map"
  THEN IF href = "a.ts" THEN "http://g/a.ts"
       ELSE IF href = "b.ts" THEN "http://g/b.ts"
       ELSE "http://g/gen.js"
  ELSE IF base \notin {"http://h/gen.js.map", "http://h/gen.js"} THEN href
  ELSE IF href = "a.ts" THEN "http://h/a.ts"
  ELSE IF href = "b.ts" THEN "http://h/b.ts"
  ELSE "http://h/gen.js"

\* Common.ParsedURL.ParsedURL.concatenate(url, '? [sm]'), called for the compiled URL only
concatenateSm(url) == "http://h/gen.js? [sm]"

(***************************************************************************)
(* sourceInfos is the Map of the code as the sequence of its values in     *)
(* insertion order, each with its key in the field url.                    *)
(***************************************************************************)
SourceInfo(url, content, ignoreListHint) ==
  [url |-> url, content |-> content, ignoreListHint |-> ignoreListHint,
   reverseMappings |-> Null]

hasSourceInfo(infos, url) == \E k \in 1..Len(infos) : infos[k].url = url

getSourceInfo(infos, url) == infos[CHOOSE k \in 1..Len(infos) : infos[k].url = url]

\* a variant in which a later occurrence of a URL replaces its SourceInfo
setSourceInfoLast(infos, url, content, ignoreListHint) ==
  IF ~hasSourceInfo(infos, url)
  THEN Append(infos, SourceInfo(url, content, ignoreListHint))
  ELSE [k \in 1..Len(infos) |->
          IF infos[k].url = url THEN SourceInfo(url, content, ignoreListHint) ELSE infos[k]]

\* a variant that records every occurrence of a URL
setSourceInfoEach(infos, url, content, ignoreListHint) == Append(infos, SourceInfo(url, content, ignoreListHint))

\* if (!this.#sourceInfos.has(url)) this.#sourceInfos.set(url, new SourceInfo(...))
setSourceInfo(infos, url, content, ignoreListHint) ==
  IF ~hasSourceInfo(infos, url)
  THEN Append(infos, SourceInfo(url, content, ignoreListHint))
  ELSE infos

(***************************************************************************)
(* parseSources: one section's sources, resolved; the first occurrence of  *)
(* a URL creates its SourceInfo.  Returns the new sourceInfos and the      *)
(* section's list of resolved URLs.                                        *)
(***************************************************************************)
RECURSIVE parseSourcesLoop(_, _, _, _, _)
parseSourcesLoop(base, sourceMap, i, infos, sourcesList) ==
  IF i >= Len(sourceMap.sources)
  THEN [sourceInfos |-> infos, sourcesList |-> sourcesList]
  ELSE
    LET href   == At(sourceMap.sources, i)
        url0   == completeURL(base, href)
        source == IF sourceMap.sourcesContent # Null /\ i < Len(sourceMap.sourcesContent[1])
                  THEN At(sourceMap.sourcesContent[1], i)
                  ELSE Undefined
        url    == IF url0 = compiledURLInternal /\ source # Undefined /\ source # ""
                  THEN concatenateSm(url0)
                  ELSE url0
        ignoreListHint == \E k \in 1..Len(sourceMap.x_google_ignoreList) :
                             sourceMap.x_google_ignoreList[k] = i
        \* source ?? null
        content == IF source = Undefined THEN Null ELSE Some(source)
        infos2 == setSourceInfo(infos, url, content, ignoreListHint)
    IN  parseSourcesLoop(base, sourceMap, i + 1, infos2, Append(sourcesList, url))

parseSources(base, sourceMap, infos) == parseSourcesLoop(base, sourceMap, 0, infos, <<>>)

\* sourceMap.sources.length raises a TypeError for a map without the sources field
parseSourcesThrows(sourceMap) == sourceMap.sources = Missing

(***************************************************************************)
(* eachSection: the section maps of the payload with their offsets, in the *)
(* order the callback is called; a section with 'url' is skipped.          *)
(***************************************************************************)
eachSection(payload) ==
  IF payload = Null THEN <<>>
  ELSE IF payload[1].sectioned
  THEN SelectSeq(payload[1].sections, LAMBDA section : section.kind = "map")
  ELSE << [kind |-> "map", offset |-> [line |-> 0, column |-> 0], map |-> payload[1].map] >>

(***************************************************************************)
(* The constructor: eachSection(parseSources).  sourceMapToSourceList is   *)
(* the module's WeakMap, a function from the identity of a section map to  *)
(* its list of resolved URLs; a map constructed from a payload whose       *)
(* section maps are already keys replaces their lists.  threw: a           *)
(* parseSources raised, and no map is constructed.                         *)
(***************************************************************************)
RECURSIVE constructSections(_, _, _, _, _)
constructSections(base, sections, k, infos, lists) ==
  IF k > Len(sections)
  THEN [sourceInfos |-> infos, sourceMapToSourceList |-> lists, threw |-> FALSE]
  ELSE IF parseSourcesThrows(sections[k].map)
  THEN [sourceInfos |-> infos, sourceMapToSourceList |-> lists, threw |-> TRUE]
  ELSE LET r == parseSources(base, sections[k].map, infos)
       IN  constructSections(base, sections, k + 1, r.sourceInfos,
              [id \in DOMAIN lists \cup {sections[k].map.id} |->
                 IF id = sections[k].map.id THEN r.sourcesList ELSE lists[id]])

\* new TextSourceMap(compiledURL, sourceMappingURL, payload, initiator), with the
\* base URL that follows from sourceMappingURL and the WeakMap as it is then
constructWith(base, payload, lists) ==
  constructSections(base, eachSection(Some(payload)), 1, <<>>, lists)

construct(payload) == constructWith(baseURL, payload, <<>>)

(***************************************************************************)
(* parseMap: decodes one section's mappings string at its offset, pushes   *)
(* one entry per segment and sorts the whole entry sequence.               *)
(***************************************************************************)
RECURSIVE skipLines(_, _)
\* while (peek() === ';') { lineNumber += 1; columnNumber = 0; next(); }
skipLines(string, s) ==
  IF peek(string, s.position) = ";"
  THEN skipLines(string, [s EXCEPT !.lineNumber = @ + 1, !.columnNumber = 0,
                                   !.position = @ + 1])
  ELSE s

\* sources[sourceIndex], names[nameIndex]: undefined outside the array
elementOrUndefined(array, i) ==
  IF i >= 0 /\ i < Len(array) THEN At(array, i) ELSE Undefined

\* this.mappings().push(new SourceMapEntry(...)); continue
pushEntry(s, sourceURL, sourceLineNumber, sourceColumnNumber, name) ==
  [s EXCEPT !.mappings = Append(@,
     SourceMapEntry(s.lineNumber, s.columnNumber, sourceURL, sourceLineNumber,
                    sourceColumnNumber, name))]

\* at the end of a segment: !hasNext() || isSeparator(peek())
atSegmentEnd(string, position) ==
  ~hasNext(string, position) \/ isSeparator(peek(string, position))

\* sourceIndex += sourceIndexDelta; sourceURL = sources[sourceIndex], when the delta is not 0
withSourceIndex(s, sources, d) ==
  [s EXCEPT !.sourceIndex = @ + d.value,
            !.sourceURL = IF d.value # 0 /\ sources # Null
                          THEN elementOrUndefined(sources[1], s.sourceIndex + d.value)
                          ELSE @,
            !.position = d.position]

\* a variant that takes the field for the source line itself, not for its delta
withSourceLineAbsolute(s, l) == [s EXCEPT !.sourceLineNumber = l.value, !.position = l.position]

withSourceLine(s, l) == [s EXCEPT !.sourceLineNumber = @ + l.value, !.position = l.position]

withSourceColumn(s, c) == [s EXCEPT !.sourceColumnNumber = @ + c.value, !.position = c.position]

withColumn(s, c) == [s EXCEPT !.columnNumber = @ + c.value, !.position = c.position]

withName(s, n) == [s EXCEPT !.nameIndex = @ + n.value, !.position = n.position]

\* the three fields after the column, decoded one after the other
decodeSourceIndex(string, sources, s) == withSourceIndex(s, sources, decodeVLQ(string, s.position))
decodeSourceLine(string, s) == withSourceLine(s, decodeVLQ(string, s.position))
decodeSourceColumn(string, s) == withSourceColumn(s, decodeVLQ(string, s.position))
decodeColumn(string, s) == withColumn(s, decodeVLQ(string, s.position))
decodeName(string, s) == withName(s, decodeVLQ(string, s.position))

\* s: after the name field
parseName(string, sources, names, s) ==
  pushEntry(s, s.sourceURL, Some(s.sourceLineNumber), Some(s.sourceColumnNumber),
            elementOrUndefined(names, s.nameIndex))

\* s: after the source column field
parseSource(string, sources, names, s) ==
  IF atSegmentEnd(string, s.position)
  THEN pushEntry(s, s.sourceURL, Some(s.sourceLineNumber), Some(s.sourceColumnNumber),
                 Undefined)
  ELSE parseName(string, sources, names, decodeName(string, s))

\* s: after the column field
parseSegment(string, sources, names, s) ==
  IF atSegmentEnd(string, s.position)
  THEN pushEntry(s, Undefined, Null, Null, Undefined)
  ELSE parseSource(string, sources, names,
         decodeSourceColumn(string, decodeSourceLine(string,
           decodeSourceIndex(string, sources, s))))

\* if (!stringCharIterator.hasNext()) break
parseAfterLines(string, sources, names, s) ==
  IF ~hasNext(string, s.position) THEN [s EXCEPT !.done = TRUE]
  ELSE parseSegment(string, sources, names, decodeColumn(string, s))

\* one iteration of while (true), from the separators before a segment to the
\* continue after its entry is pushed, or to the break
parseMapIteration(string, sources, names, s) ==
  IF peek(string, s.position) = ","
  THEN parseSegment(string, sources, names,
                    decodeColumn(string, [s EXCEPT !.position = @ + 1]))
  ELSE parseAfterLines(string, sources, names, skipLines(string, s))

RECURSIVE parseMapLoop(_, _, _, _)
RECURSIVE parseMapContinue(_, _, _, _)

\* while (true): the entries when the loop is left
parseMapLoop(string, sources, names, s) ==
  parseMapContinue(string, sources, names, parseMapIteration(string, sources, names, s))

\* s: after an iteration
parseMapContinue(string, sources, names, s) ==
  IF s.done THEN s.mappings ELSE parseMapLoop(string, sources, names, s)

\* const sources = sourceMapToSourceList.get(map)
sourcesOf(lists, map) == IF map.id \in DOMAIN lists THEN Some(lists[map.id]) ELSE Null

parserState(sources, lineNumber, columnNumber, mappings) ==
  [position |-> 0, lineNumber |-> lineNumber, columnNumber |-> columnNumber,
   sourceIndex |-> 0, sourceLineNumber |-> 0, sourceColumnNumber |-> 0, nameIndex |-> 0,
   sourceURL |-> IF sources # Null THEN elementOrUndefined(sources[1], 0) ELSE Undefined,
   mappings |-> mappings, done |-> FALSE]

parseMapWith(map, sources, lineNumber, columnNumber, mappings) ==
  sortEntries(parseMapLoop(map.mappings, sources, map.names,
                           parserState(sources, lineNumber, columnNumber, mappings)))

\* a variant of parseMap without the sort at its end
parseMapUnsorted(map, lineNumber, columnNumber, mappings, lists) ==
  parseMapLoop(map.mappings, sourcesOf(lists, map), map.names,
               parserState(sourcesOf(lists, map), lineNumber, columnNumber, mappings))

parseMap(map, lineNumber, columnNumber, mappings, lists) ==
  parseMapWith(map, sourcesOf(lists, map), lineNumber, columnNumber, mappings)

\* new StringCharIterator(map.mappings) and the first peek() or hasNext(): a
\* payload without the mappings field makes this.string.charAt raise a TypeError
parseMapThrows(map) == map.mappings = Missing

\* eachSection(parseMap): the entries pushed so far, and whether a parseMap raised
RECURSIVE parseSections(_, _, _, _)
parseSections(sections, k, mappings, lists) ==
  IF k > Len(sections) THEN [mappings |-> mappings, threw |-> FALSE]
  ELSE IF parseMapThrows(sections[k].map) THEN [mappings |-> mappings, threw |-> TRUE]
  ELSE parseSections(sections, k + 1,
         parseMap(sections[k].map, sections[k].offset.line, sections[k].offset.column,
                  mappings, lists),
         lists)

(***************************************************************************)
(* #computeReverseMappings: per source URL, the forward indices of its     *)
(* entries, sorted (stably) by sourceMappingComparator.                    *)
(***************************************************************************)
sourceMappingComparator(mappings, indexA, indexB) ==
  LET a == At(mappings, indexA)
      b == At(mappings, indexB)
  IN  OrElse(a.sourceLineNumber[1] - b.sourceLineNumber[1],
        OrElse(a.sourceColumnNumber[1] - b.sourceColumnNumber[1],
          OrElse(a.lineNumber - b.lineNumber, a.columnNumber - b.columnNumber)))

RECURSIVE insertIndex(_, _, _)
insertIndex(mappings, sorted, index) ==
  IF sorted = <<>> THEN <<index>>
  ELSE IF sourceMappingComparator(mappings, sorted[Len(sorted)], index) <= 0
       THEN Append(sorted, index)
  ELSE Append(insertIndex(mappings, SubSeq(sorted, 1, Len(sorted) - 1), index),
              sorted[Len(sorted)])

RECURSIVE sortIndices(_, _)
sortIndices(mappings, indices) ==
  IF indices = <<>> THEN <<>>
  ELSE insertIndex(mappings, sortIndices(mappings, SubSeq(indices, 1, Len(indices) - 1)),
                   indices[Len(indices)])

\* a variant that takes the entries of every source
indicesOfUrlAny(mappings, url, i) == SelectSeq([k \in 1..Len(mappings) |-> k - 1], LAMBDA j : j >= i /\ At(mappings, j).sourceURL # Undefined)

\* the indices i, ascending, with mappings[i].sourceURL === url
RECURSIVE indicesOfUrl(_, _, _)
indicesOfUrl(mappings, url, i) ==
  IF i >= Len(mappings) THEN <<>>
  ELSE IF At(mappings, i).sourceURL = url
       THEN <<i>> \o indicesOfUrl(mappings, url, i + 1)
       ELSE indicesOfUrl(mappings, url, i + 1)

\* if (!entryUrl) continue
isTruthyUrl(url) == url # Undefined /\ url # ""

\* a variant of #computeReverseMappings that leaves each reverse index in
\* forward order
computeReverseMappingsUnsorted(mappings, infos) ==
  [k \in 1..Len(infos) |->
     LET reverseMap == indicesOfUrl(mappings, infos[k].url, 0)
     IN  IF isTruthyUrl(infos[k].url) /\ reverseMap # <<>>
         THEN [infos[k] EXCEPT !.reverseMappings = Some(reverseMap)]
         ELSE infos[k]]

computeReverseMappings(mappings, infos) ==
  [k \in 1..Len(infos) |->
     LET reverseMap == indicesOfUrl(mappings, infos[k].url, 0)
     IN  IF isTruthyUrl(infos[k].url) /\ reverseMap # <<>>
         THEN [infos[k] EXCEPT !.reverseMappings = Some(sortIndices(mappings, reverseMap))]
         ELSE infos[k]]

(***************************************************************************)
(* #ensureMappingsProcessed: on the first call decodes every section,      *)
(* builds the reverse indices and releases the payload.  mappingsInternal  *)
(* is set to [] before the sections are decoded, so when a parseMap raises *)
(* the map keeps the entries pushed so far, no reverse index and the       *)
(* payload, and the exception leaves the query that made the call (threw). *)
(***************************************************************************)
\* a variant that decodes the sections on every call
ensureMappingsProcessedOfAlways(this, lists) ==
  LET decoded == parseSections(eachSection(this.json), 1, <<>>, lists)
  IN  [mappingsInternal |-> Some(decoded.mappings),
       sourceInfos |-> computeReverseMappings(decoded.mappings, this.sourceInfos),
       json |-> Null, threw |-> decoded.threw]

\* on the map this, a record of the fields json, mappingsInternal and sourceInfos
ensureMappingsProcessedOf(this, lists) ==
  IF this.mappingsInternal = Null
  THEN LET decoded == parseSections(eachSection(this.json), 1, <<>>, lists)
       IN  IF decoded.threw
           THEN [mappingsInternal |-> Some(decoded.mappings), sourceInfos |-> this.sourceInfos,
                 json |-> this.json, threw |-> TRUE]
           ELSE [mappingsInternal |-> Some(decoded.mappings),
                 sourceInfos |-> computeReverseMappings(decoded.mappings, this.sourceInfos),
                 json |-> Null, threw |-> FALSE]
  ELSE [mappingsInternal |-> this.mappingsInternal, sourceInfos |-> this.sourceInfos,
        json |-> this.json, threw |-> FALSE]

ensureMappingsProcessed ==
  ensureMappingsProcessedOf(
    [json |-> json, mappingsInternal |-> mappingsInternal, sourceInfos |-> sourceInfos],
    sourceMapToSourceList)

\* this.#sourceInfos.get(sourceURL)?.reverseMappings ?? []
reversedMappings(infos, sourceURL) ==
  IF hasSourceInfo(infos, sourceURL) /\ getSourceInfo(infos, sourceURL).reverseMappings # Null
  THEN getSourceInfo(infos, sourceURL).reverseMappings[1]
  ELSE <<>>

(***************************************************************************)
(* Platform.ArrayUtilities.lowerBound and upperBound: binary searches.     *)
(* The argument is the array of the comparator's values,                   *)
(* comparator(needle, array[m]) at each index m.                           *)
(***************************************************************************)
RECURSIVE lowerBoundLoop(_, _, _)
lowerBoundLoop(c, l, r) ==
  IF l < r
  THEN LET m == (l + r) \div 2
       IN  IF At(c, m) > 0 THEN lowerBoundLoop(c, m + 1, r) ELSE lowerBoundLoop(c, l, m)
  ELSE r

lowerBound(c) == lowerBoundLoop(c, 0, Len(c))

RECURSIVE upperBoundLoop(_, _, _)
upperBoundLoop(c, l, r) ==
  IF l < r
  THEN LET m == (l + r) \div 2
       IN  IF At(c, m) >= 0 THEN upperBoundLoop(c, m + 1, r) ELSE upperBoundLoop(c, l, m)
  ELSE r

upperBound(c) == upperBoundLoop(c, 0, Len(c))

TextRange(startLine, startColumn, endLine, endColumn) ==
  [startLine |-> startLine, startColumn |-> startColumn,
   endLine |-> endLine, endColumn |-> endColumn]

createUnboundedFromLocation(line, column) == TextRange(line, column, MaxInt32, MaxInt32)

\* (unused, entry) => lineNumber - entry.lineNumber || columnNumber - entry.columnNumber
generatedComparator(mappings, lineNumber, columnNumber) ==
  [k \in 1..Len(mappings) |->
     OrElse(lineNumber - mappings[k].lineNumber, columnNumber - mappings[k].columnNumber)]

\* (unused, i) => lineNumber - mappings[i].sourceLineNumber ||
\*                columnNumber - mappings[i].sourceColumnNumber
sourceComparator(mappings, reverseMappings, lineNumber, columnNumber) ==
  [k \in 1..Len(reverseMappings) |->
     OrElse(lineNumber - At(mappings, reverseMappings[k]).sourceLineNumber[1],
            columnNumber - At(mappings, reverseMappings[k]).sourceColumnNumber[1])]

(***************************************************************************)
(* The query operations, on the materialized entries and source infos.     *)
(***************************************************************************)
\* a variant of findEntry that searches with lowerBound: at an exact hit it
\* returns the entry before the one asked for
findEntryLowerBound(mappings, lineNumber, columnNumber) ==
  LET index == lowerBound(generatedComparator(mappings, lineNumber, columnNumber))
  IN  IF index # 0 THEN Some(At(mappings, index - 1)) ELSE Null

findEntry(mappings, lineNumber, columnNumber) ==
  LET index == upperBound(generatedComparator(mappings, lineNumber, columnNumber))
  IN  IF index # 0 THEN Some(At(mappings, index - 1)) ELSE Null

\* a variant of the range in the compiled code that takes the entry after the
\* last for the end of the sequence one entry early
entryRangeOffByOne(mappings, startIndex, endIndex) ==
  TextRange(At(mappings, startIndex).lineNumber, At(mappings, startIndex).columnNumber,
            IF endIndex + 1 < Len(mappings) THEN At(mappings, endIndex).lineNumber
            ELSE MaxInt32,
            IF endIndex + 1 < Len(mappings) THEN At(mappings, endIndex).columnNumber
            ELSE MaxInt32)

\* the range in the compiled code: from mappings[startIndex] to mappings[endIndex],
\* or to 2 ** 31 - 1 past the last entry
entryRange(mappings, startIndex, endIndex) ==
  TextRange(At(mappings, startIndex).lineNumber, At(mappings, startIndex).columnNumber,
            IF endIndex < Len(mappings) THEN At(mappings, endIndex).lineNumber ELSE MaxInt32,
            IF endIndex < Len(mappings) THEN At(mappings, endIndex).columnNumber ELSE MaxInt32)

\* a variant that takes the reverse index entry right after the first one at the
\* matched entry's original position
endReverseIndexOfNext(mappings, reverseMappings, startSourceLine, startSourceColumn) ==
  lowerBound(sourceComparator(mappings, reverseMappings, startSourceLine, startSourceColumn))
    + 1

\* upperBound(reverseMappings, undefined, (unused, i) => startSourceLine - ... )
endReverseIndexOf(mappings, reverseMappings, startSourceLine, startSourceColumn) ==
  upperBound(sourceComparator(mappings, reverseMappings, startSourceLine, startSourceColumn))

\* the range in the original code, up to reverseMappings[endReverseIndex]
entrySourceRange(mappings, reverseMappings, startSourceLine, startSourceColumn, endReverseIndex) ==
  TextRange(startSourceLine, startSourceColumn,
            IF endReverseIndex < Len(reverseMappings)
            THEN At(mappings, At(reverseMappings, endReverseIndex)).sourceLineNumber[1]
            ELSE MaxInt32,
            IF endReverseIndex < Len(reverseMappings)
            THEN At(mappings, At(reverseMappings, endReverseIndex)).sourceColumnNumber[1]
            ELSE MaxInt32)

\* the second half of findEntryRanges, once the matched entry has a sourceURL
findEntryRangesOf(mappings, reverseMappings, startIndex, endIndex, endReverseIndex) ==
  IF endReverseIndex = 0 THEN Null
  ELSE Some([range |-> entryRange(mappings, startIndex, endIndex),
             sourceRange |->
               entrySourceRange(mappings, reverseMappings,
                                At(mappings, startIndex).sourceLineNumber[1],
                                At(mappings, startIndex).sourceColumnNumber[1],
                                endReverseIndex),
             sourceURL |-> At(mappings, startIndex).sourceURL])

findEntryRangesAt(mappings, infos, endIndex) ==
  IF endIndex = 0 THEN Null
  ELSE IF ~isTruthyUrl(At(mappings, endIndex - 1).sourceURL) THEN Null
  ELSE findEntryRangesOf(mappings,
         reversedMappings(infos, At(mappings, endIndex - 1).sourceURL),
         endIndex - 1, endIndex,
         endReverseIndexOf(mappings,
           reversedMappings(infos, At(mappings, endIndex - 1).sourceURL),
           At(mappings, endIndex - 1).sourceLineNumber[1],
           At(mappings, endIndex - 1).sourceColumnNumber[1]))

findEntryRanges(mappings, infos, lineNumber, columnNumber) ==
  findEntryRangesAt(mappings, infos,
    upperBound(generatedComparator(mappings, lineNumber, columnNumber)))

\* a variant of sourceLineMapping that searches the columns with upperBound
sourceLineMappingUpperBound(mappings, infos, sourceURL, lineNumber, columnNumber) ==
  LET reverseMappings == reversedMappings(infos, sourceURL)
      lineComparator == [k \in 1..Len(reverseMappings) |->
                           lineNumber - At(mappings, reverseMappings[k]).sourceLineNumber[1]]
      first == lowerBound(lineComparator)
      last  == upperBound(lineComparator)
  IN
  IF first >= Len(reverseMappings)
     \/ At(mappings, At(reverseMappings, first)).sourceLineNumber[1] # lineNumber
  THEN Null
  ELSE
    LET columnMappings == Slice(reverseMappings, first, last)
        index == upperBound([k \in 1..Len(columnMappings) |->
                   columnNumber - At(mappings, columnMappings[k]).sourceColumnNumber[1]])
    IN  IF Len(columnMappings) = 0 THEN Null
        ELSE IF index >= Len(columnMappings)
             THEN Some(At(mappings, At(columnMappings, Len(columnMappings) - 1)))
             ELSE Some(At(mappings, At(columnMappings, index)))

sourceLineMapping(mappings, infos, sourceURL, lineNumber, columnNumber) ==
  LET reverseMappings == reversedMappings(infos, sourceURL)
      lineComparator == [k \in 1..Len(reverseMappings) |->
                           lineNumber - At(mappings, reverseMappings[k]).sourceLineNumber[1]]
      first == lowerBound(lineComparator)
      last  == upperBound(lineComparator)
  IN
  IF first >= Len(reverseMappings)
     \/ At(mappings, At(reverseMappings, first)).sourceLineNumber[1] # lineNumber
  THEN Null
  ELSE
    LET columnMappings == Slice(reverseMappings, first, last)
        index == lowerBound([k \in 1..Len(columnMappings) |->
                   columnNumber - At(mappings, columnMappings[k]).sourceColumnNumber[1]])
    IN  IF Len(columnMappings) = 0 THEN Null
        ELSE IF index >= Len(columnMappings)
             THEN Some(At(mappings, At(columnMappings, Len(columnMappings) - 1)))
             ELSE Some(At(mappings, At(columnMappings, index)))

\* a variant of the loop of findReverseIndices that steps back once (if for while)
findReverseStartOnce(mappings, reverseMappings, startIndex, endIndex) ==
  IF startIndex > 0 THEN startIndex - 1 ELSE startIndex

RECURSIVE findReverseStart(_, _, _, _)
\* while (startIndex > 0 && same source position as reverseMappings[endIndex - 1]) --startIndex
findReverseStart(mappings, reverseMappings, startIndex, endIndex) ==
  IF startIndex > 0
     /\ At(mappings, At(reverseMappings, startIndex - 1)).sourceLineNumber
          = At(mappings, At(reverseMappings, endIndex - 1)).sourceLineNumber
     /\ At(mappings, At(reverseMappings, startIndex - 1)).sourceColumnNumber
          = At(mappings, At(reverseMappings, endIndex - 1)).sourceColumnNumber
  THEN findReverseStart(mappings, reverseMappings, startIndex - 1, endIndex)
  ELSE startIndex

findReverseIndices(mappings, infos, sourceURL, lineNumber, columnNumber) ==
  LET reverseMappings == reversedMappings(infos, sourceURL)
      endIndex == upperBound(sourceComparator(mappings, reverseMappings,
                                              lineNumber, columnNumber))
      startIndex == findReverseStart(mappings, reverseMappings, endIndex, endIndex)
  IN  Slice(reverseMappings, startIndex, endIndex)

findReverseEntries(mappings, infos, sourceURL, lineNumber, columnNumber) ==
  LET indices == findReverseIndices(mappings, infos, sourceURL, lineNumber, columnNumber)
  IN  [k \in 1..Len(indices) |-> At(mappings, indices[k])]

\* a variant of findReverseRanges that does not merge adjacent ranges
mergeAdjacentNever(indices, i, endIndex) == [i |-> i, endIndex |-> endIndex]

RECURSIVE mergeAdjacent(_, _, _)
\* while (i + 1 < indices.length && endIndex === indices[i + 1]) { ++endIndex; ++i; }
mergeAdjacent(indices, i, endIndex) ==
  IF i + 1 < Len(indices) /\ endIndex = At(indices, i + 1)
  THEN mergeAdjacent(indices, i + 1, endIndex + 1)
  ELSE [i |-> i, endIndex |-> endIndex]

RECURSIVE findReverseRangesLoop(_, _, _, _)
findReverseRangesLoop(mappings, indices, i, ranges) ==
  IF i >= Len(indices) THEN ranges
  ELSE
    LET startIndex == At(indices, i)
        merged == mergeAdjacent(indices, i, startIndex + 1)
        endIndex == merged.endIndex
        startLine == At(mappings, startIndex).lineNumber
        startColumn == At(mappings, startIndex).columnNumber
        endLine == IF endIndex < Len(mappings) THEN At(mappings, endIndex).lineNumber
                   ELSE MaxInt32
        endColumn == IF endIndex < Len(mappings) THEN At(mappings, endIndex).columnNumber
                     ELSE MaxInt32
    IN  findReverseRangesLoop(mappings, indices, merged.i + 1,
          Append(ranges, TextRange(startLine, startColumn, endLine, endColumn)))

findReverseRanges(mappings, infos, sourceURL, lineNumber, columnNumber) ==
  findReverseRangesLoop(mappings,
    findReverseIndices(mappings, infos, sourceURL, lineNumber, columnNumber), 0, <<>>)

(***************************************************************************)
(* findRanges: the predicate is the set of the URLs it accepts.  current   *)
(* is the last range pushed while isOpen, as in the code, where current is *)
(* the object pushed last and is closed in place.                          *)
\* a variant of the sweep of findRanges that never closes a range
RECURSIVE findRangesLoopOpen(_, _, _, _, _)
findRangesLoopOpen(mappings, predicate, k, ranges, isOpen) ==
  IF k > Len(mappings) THEN ranges
  ELSE IF ~isOpen /\ isTruthyUrl(mappings[k].sourceURL) /\ mappings[k].sourceURL \in predicate
  THEN findRangesLoopOpen(mappings, predicate, k + 1,
         Append(ranges,
                createUnboundedFromLocation(mappings[k].lineNumber, mappings[k].columnNumber)),
         TRUE)
  ELSE findRangesLoopOpen(mappings, predicate, k + 1, ranges, isOpen)

(***************************************************************************)
RECURSIVE findRangesLoop(_, _, _, _, _)
findRangesLoop(mappings, predicate, k, ranges, isOpen) ==
  IF k > Len(mappings) THEN ranges
  ELSE
    LET entry == mappings[k]
        ignoreListHint == isTruthyUrl(entry.sourceURL) /\ entry.sourceURL \in predicate
    IN  IF ~isOpen /\ ignoreListHint
        THEN findRangesLoop(mappings, predicate, k + 1,
               Append(ranges, createUnboundedFromLocation(entry.lineNumber, entry.columnNumber)),
               TRUE)
        ELSE IF isOpen /\ ~ignoreListHint
        THEN findRangesLoop(mappings, predicate, k + 1,
               [ranges EXCEPT ![Len(ranges)].endLine = entry.lineNumber,
                              ![Len(ranges)].endColumn = entry.columnNumber],
               FALSE)
        ELSE findRangesLoop(mappings, predicate, k + 1, ranges, isOpen)

\* a variant of findRanges that takes the start for matching whatever the option
findRangesStartMatching(mappings, predicate, isStartMatching) ==
  IF Len(mappings) = 0 THEN <<>>
  ELSE IF mappings[1].lineNumber # 0 \/ mappings[1].columnNumber # 0
  THEN findRangesLoop(mappings, predicate, 1, <<createUnboundedFromLocation(0, 0)>>, TRUE)
  ELSE findRangesLoop(mappings, predicate, 1, <<>>, FALSE)

findRanges(mappings, predicate, isStartMatching) ==
  IF Len(mappings) = 0 THEN <<>>
  ELSE IF (mappings[1].lineNumber # 0 \/ mappings[1].columnNumber # 0) /\ isStartMatching
  THEN findRangesLoop(mappings, predicate, 1, <<createUnboundedFromLocation(0, 0)>>, TRUE)
  ELSE findRangesLoop(mappings, predicate, 1, <<>>, FALSE)

(***************************************************************************)
(* mapsOrigin, hasIgnoreListHint, embeddedContentByURL and sourceURLs.     *)
(* The last three read sourceInfos as the constructor filled it and do not *)
(* materialize the map.                                                    *)
(***************************************************************************)
\* a variant that wants both coordinates of the first entry to be 0
mapsOriginBoth(mappings) ==
  IF Len(mappings) > 0
  THEN At(mappings, 0).lineNumber = 0 /\ At(mappings, 0).columnNumber = 0
  ELSE FALSE

mapsOrigin(mappings) ==
  IF Len(mappings) > 0
  THEN At(mappings, 0).lineNumber = 0 \/ At(mappings, 0).columnNumber = 0
  ELSE FALSE

\* this.#sourceInfos.get(sourceURL)?.ignoreListHint ?? false
hasIgnoreListHint(infos, sourceURL) ==
  IF hasSourceInfo(infos, sourceURL) THEN getSourceInfo(infos, sourceURL).ignoreListHint
  ELSE FALSE

embeddedContentByURL(infos, sourceURL) ==
  IF ~hasSourceInfo(infos, sourceURL) THEN Null
  ELSE getSourceInfo(infos, sourceURL).content

\* [...this.#sourceInfos.keys()]
sourceURLs(infos) == [k \in 1..Len(infos) |-> infos[k].url]

(***************************************************************************)
(* The payloads.  A segment is the tuple of its fields' values; a mappings *)
(* string is the base64 VLQ encoding of its segments, each but the first   *)
(* preceded by ',' or ';'.                                                 *)
(***************************************************************************)
Segments ==
  { <<0>>,              \* no source, at the current column
    <<0, 0, 0, 0>>,     \* the current source position once more
    <<1, 0, 0, 2>>,     \* one column on, two source columns on
    <<1, 1, 0, 0>>,     \* one column on, in the next source
    <<-1, 0, 1, 0>> }   \* one column back, on the next source line

\* the base64 digit of a value between -15 and 15 (one character, no continuation)
encodeVLQ(value) ==
  base64Digits[(IF value < 0 THEN 2 * (-value) + 1 ELSE 2 * value) + 1]

encodeSegment(segment) == [i \in 1..Len(segment) |-> encodeVLQ(segment[i])]

RECURSIVE MappingsOfLength(_)
MappingsOfLength(n) ==
  IF n = 0 THEN {<<>>}
  ELSE IF n = 1 THEN {encodeSegment(segment) : segment \in Segments}
  ELSE {head \o <<separator>> \o encodeSegment(segment) :
          head \in MappingsOfLength(n - 1), separator \in {",", ";"}, segment \in Segments}

SourceMapV3Object(id, mappings) ==
  [id |-> id, sources |-> <<"a.ts", "b.ts">>, sourcesContent |-> Null, names |-> <<>>,
   mappings |-> mappings, x_google_ignoreList |-> <<>>]

Offset(line, column) == [line |-> line, column |-> column]

Section(offset, map) == [kind |-> "map", offset |-> offset, map |-> map]

FlatPayloads ==
  {[sectioned |-> FALSE, map |-> SourceMapV3Object(1, mappings)] :
     mappings \in UNION {MappingsOfLength(n) : n \in 0..MaxSegments}}

\* two sections of one segment each, listed in offset order or out of it, or at
\* one offset
SectionOffsets ==
  { <<Offset(0, 0), Offset(1, 0)>>, <<Offset(1, 0), Offset(0, 0)>>,
    <<Offset(0, 0), Offset(0, 0)>> }

SectionedPayloads ==
  {[sectioned |-> TRUE,
    sections |-> << Section(offsets[1], SourceMapV3Object(1, first)),
                    Section(offsets[2], SourceMapV3Object(2, second)) >>] :
      offsets \in SectionOffsets,
      first \in MappingsOfLength(1), second \in MappingsOfLength(1)}

Payloads == FlatPayloads \cup SectionedPayloads

QueryLines == 0..MaxQueryLine
QueryColumns == 0..MaxQueryColumn
\* the URL of the first source, resolved, and a URL that is no source of the map
QueryURLs == {"http://h/a.ts", "http://h/c.ts"}
\* the predicates of findRanges, each the set of the URLs it accepts
Predicates == SUBSET {"http://h/a.ts", "http://h/b.ts"}

NoCall ==
  [op |-> "none", lineNumber |-> 0, columnNumber |-> 0, sourceURL |-> Undefined,
   predicate |-> {}, isStartMatching |-> FALSE, result |-> <<>>, threw |-> FALSE]

(***************************************************************************)
(* The state after new SourceMapManager(target): enabled, no client data,  *)
(* no source map, nothing dispatched.                                      *)
(***************************************************************************)
NoOutcome ==
  [op |-> "none", client |-> Undefined, relativeSourceMapURL |-> Undefined,
   threw |-> FALSE, resolved |-> {}]

NewManager ==
  /\ isEnabled = TRUE
  /\ inspectedURL = "http://h/"
  /\ clientData = <<>>
  /\ sourceMaps = {}
  /\ events = <<>>
  /\ loads = <<>>
  /\ promises = {}
  /\ outcome = NoOutcome

\* one map alone: no second map, no load in progress, a manager nobody has called
Alone ==
  /\ other = Null
  /\ loading = Null
  /\ NewManager

(***************************************************************************)
(* The state after new TextSourceMap(compiledURL, sourceMappingURL,        *)
(* payload, initiator), for each payload.                                  *)
(***************************************************************************)
Init ==
  \E payload \in Payloads :
    /\ json = Some(payload)
    /\ mappingsInternal = Null
    /\ sourceInfos = construct(payload).sourceInfos
    /\ sourceMapToSourceList = construct(payload).sourceMapToSourceList
    /\ call = NoCall
    /\ Alone

(***************************************************************************)
(* The operations.  Each one calls mappings() or reversedMappings() first, *)
(* which materialize the map on the first call: this is the map after      *)
(* #ensureMappingsProcessed, whose fields the action stores.  The action   *)
(* records the call and what it returned, or that it raised.               *)
(***************************************************************************)
Raised(record) == [record EXCEPT !.result = <<>>, !.threw = TRUE]

Returns(this, record) ==
  /\ mappingsInternal' = this.mappingsInternal
  /\ sourceInfos' = this.sourceInfos
  /\ json' = this.json
  /\ call' = IF this.threw THEN Raised(record) ELSE record
  /\ UNCHANGED <<sourceMapToSourceList, other, loading, managerVars>>

MappingsOn(this) ==
  Returns(this, [NoCall EXCEPT !.op = "mappings", !.result = this.mappingsInternal[1]])

FindEntryOn(this) ==
  \E lineNumber \in QueryLines, columnNumber \in QueryColumns :
    Returns(this,
      [NoCall EXCEPT !.op = "findEntry", !.lineNumber = lineNumber,
         !.columnNumber = columnNumber,
         !.result = findEntry(this.mappingsInternal[1], lineNumber, columnNumber)])

FindEntryRangesOn(this) ==
  \E lineNumber \in QueryLines, columnNumber \in QueryColumns :
    Returns(this,
      [NoCall EXCEPT !.op = "findEntryRanges", !.lineNumber = lineNumber,
         !.columnNumber = columnNumber,
         !.result = findEntryRanges(this.mappingsInternal[1], this.sourceInfos,
                                    lineNumber, columnNumber)])

SourceLineMappingOn(this) ==
  \E sourceURL \in QueryURLs, lineNumber \in QueryLines, columnNumber \in QueryColumns :
    Returns(this,
      [NoCall EXCEPT !.op = "sourceLineMapping", !.sourceURL = sourceURL,
         !.lineNumber = lineNumber, !.columnNumber = columnNumber,
         !.result = sourceLineMapping(this.mappingsInternal[1], this.sourceInfos,
                                      sourceURL, lineNumber, columnNumber)])

FindReverseEntriesOn(this) ==
  \E sourceURL \in QueryURLs, lineNumber \in QueryLines, columnNumber \in QueryColumns :
    Returns(this,
      [NoCall EXCEPT !.op = "findReverseEntries", !.sourceURL = sourceURL,
         !.lineNumber = lineNumber, !.columnNumber = columnNumber,
         !.result = findReverseEntries(this.mappingsInternal[1], this.sourceInfos,
                                       sourceURL, lineNumber, columnNumber)])

FindReverseRangesOn(this) ==
  \E sourceURL \in QueryURLs, lineNumber \in QueryLines, columnNumber \in QueryColumns :
    Returns(this,
      [NoCall EXCEPT !.op = "findReverseRanges", !.sourceURL = sourceURL,
         !.lineNumber = lineNumber, !.columnNumber = columnNumber,
         !.result = findReverseRanges(this.mappingsInternal[1], this.sourceInfos,
                                      sourceURL, lineNumber, columnNumber)])

FindRangesOn(this) ==
  \E predicate \in Predicates, isStartMatching \in BOOLEAN :
    Returns(this,
      [NoCall EXCEPT !.op = "findRanges", !.predicate = predicate,
         !.isStartMatching = isStartMatching,
         !.result = findRanges(this.mappingsInternal[1], predicate, isStartMatching)])

Mappings == MappingsOn(ensureMappingsProcessed)
FindEntry == FindEntryOn(ensureMappingsProcessed)
FindEntryRanges == FindEntryRangesOn(ensureMappingsProcessed)
SourceLineMapping == SourceLineMappingOn(ensureMappingsProcessed)
FindReverseEntries == FindReverseEntriesOn(ensureMappingsProcessed)
FindReverseRanges == FindReverseRangesOn(ensureMappingsProcessed)
FindRanges == FindRangesOn(ensureMappingsProcessed)

Next ==
  \/ Mappings
  \/ FindEntry
  \/ FindEntryRanges
  \/ SourceLineMapping
  \/ FindReverseEntries
  \/ FindReverseRanges
  \/ FindRanges

Spec == Init /\ [][Next]_vars

(***************************************************************************)
(* Payloads that vary what the constructor reads: the sources of a         *)
(* section (a URL may be listed twice, or by two sections), its            *)
(* x_google_ignoreList and sourcesContent; and payloads lenient parsing    *)
(* has to accept, a section map without the mappings field.                *)
(***************************************************************************)
SourceMapV3ObjectOf(id, sources, sourcesContent, mappings, ignoreList) ==
  [id |-> id, sources |-> sources, sourcesContent |-> sourcesContent, names |-> <<>>,
   mappings |-> mappings, x_google_ignoreList |-> ignoreList]

\* no field; the empty string; an entry at (0, 0), at (0, 1), at (1, 0) and at (1, 1)
VariedMappings ==
  { Missing, <<>>, encodeSegment(<<0, 0, 0, 0>>), encodeSegment(<<1, 0, 0, 0>>),
    <<";">> \o encodeSegment(<<0, 0, 0, 0>>), <<";">> \o encodeSegment(<<1, 1, 0, 0>>) }

VariedFlatPayloads ==
  {[sectioned |-> FALSE,
    map |-> SourceMapV3ObjectOf(1, sources, sourcesContent, mappings, ignoreList)] :
     sources \in { <<"a.ts", "b.ts">>, <<"a.ts", "a.ts">>, <<"b.ts", "a.ts">> },
     sourcesContent \in { Null, Some(<<"x", "y">>) },
     mappings \in VariedMappings,
     ignoreList \in { <<>>, <<0>>, <<1>>, <<0, 1>> }}

VariedSectionedPayloads ==
  {[sectioned |-> TRUE,
    sections |-> << Section(Offset(0, 0), SourceMapV3ObjectOf(1, <<s1>>, Null, m1, i1)),
                    Section(Offset(1, 0), SourceMapV3ObjectOf(2, <<s2>>, Null, m2, i2)) >>] :
      s1 \in {"a.ts", "b.ts"}, s2 \in {"a.ts", "b.ts"},
      m1 \in {Missing, encodeSegment(<<0, 0, 0, 0>>)},
      m2 \in {Missing, encodeSegment(<<0, 0, 0, 0>>)},
      i1 \in { <<>>, <<0>> }, i2 \in { <<>>, <<0>> }}

VariedPayloads == VariedFlatPayloads \cup VariedSectionedPayloads

\* the URLs of both sources, resolved, and a URL that is no source of the map
SourceQueryURLs == {"http://h/a.ts", "http://h/b.ts", "http://h/c.ts"}

InitVaried ==
  \E payload \in VariedPayloads :
    /\ json = Some(payload)
    /\ mappingsInternal = Null
    /\ sourceInfos = construct(payload).sourceInfos
    /\ sourceMapToSourceList = construct(payload).sourceMapToSourceList
    /\ call = NoCall
    /\ Alone

MapsOriginOn(this) ==
  Returns(this, [NoCall EXCEPT !.op = "mapsOrigin",
                   !.result = mapsOrigin(this.mappingsInternal[1])])

MapsOrigin == MapsOriginOn(ensureMappingsProcessed)

HasIgnoreListHint ==
  \E sourceURL \in SourceQueryURLs :
    /\ call' = [NoCall EXCEPT !.op = "hasIgnoreListHint", !.sourceURL = sourceURL,
                  !.result = hasIgnoreListHint(sourceInfos, sourceURL)]
    /\ UNCHANGED <<json, mappingsInternal, sourceInfos, sourceMapToSourceList>>
    /\ UNCHANGED <<other, loading, managerVars>>

EmbeddedContentByURL ==
  \E sourceURL \in SourceQueryURLs :
    /\ call' = [NoCall EXCEPT !.op = "embeddedContentByURL", !.sourceURL = sourceURL,
                  !.result = embeddedContentByURL(sourceInfos, sourceURL)]
    /\ UNCHANGED <<json, mappingsInternal, sourceInfos, sourceMapToSourceList>>
    /\ UNCHANGED <<other, loading, managerVars>>

SourceURLs ==
  /\ call' = [NoCall EXCEPT !.op = "sourceURLs", !.result = sourceURLs(sourceInfos)]
  /\ UNCHANGED <<json, mappingsInternal, sourceInfos, sourceMapToSourceList>>
  /\ UNCHANGED <<other, loading, managerVars>>

NextVaried ==
  \/ Mappings
  \/ FindEntry
  \/ FindEntryRanges
  \/ SourceLineMapping
  \/ FindReverseEntries
  \/ FindReverseRanges
  \/ FindRanges
  \/ MapsOrigin
  \/ HasIgnoreListHint
  \/ EmbeddedContentByURL
  \/ SourceURLs

SpecVaried == InitVaried /\ [][NextVaried]_vars

(***************************************************************************)
(* TextSourceMap.load.  The content of the resource is a sequence of       *)
(* characters in which a JSON text is one element; JSON.parse is a table   *)
(* over the JSON texts below.  The resource loader resolves with a content *)
(* or rejects with an error, as the environment decides.                   *)
(***************************************************************************)
FlatText == "{\"version\":3,\"sources\":[\"a.ts\",\"b.ts\"],\"mappings\":\"AAAA\"}"
NoMappingsText == "{\"version\":3,\"sources\":[\"a.ts\"]}"
NoSourcesText == "{\"version\":3,\"mappings\":\"AAAA\"}"
SectionsText == "{\"version\":3,\"sections\":[{\"offset\":{\"line\":0,\"column\":0},\"map\":{\"version\":3,\"sources\":[\"a.ts\"],\"mappings\":\"AAAA\"}},{\"offset\":{\"line\":1,\"column\":0},\"map\":{\"version\":3,\"sources\":[\"b.ts\"],\"mappings\":\"AAAA\"}}]}"
SectionWithoutSourcesText == "{\"version\":3,\"sections\":[{\"offset\":{\"line\":0,\"column\":0},\"map\":{\"version\":3,\"sources\":[\"a.ts\"],\"mappings\":\"AAAA\"}},{\"offset\":{\"line\":1,\"column\":0},\"map\":{\"version\":3,\"mappings\":\"AAAA\"}}]}"
NullText == "null"
TruncatedText == "{\"version\":3,"
EmptyText == ""

\* the JSON texts that parse, each with the value JSON.parse gives; null is Null
ValidTexts ==
  {FlatText, NoMappingsText, NoSourcesText, SectionsText, SectionWithoutSourcesText, NullText}

JSONValue(text) ==
  IF text = FlatText
  THEN Some([sectioned |-> FALSE,
             map |-> SourceMapV3ObjectOf(1, <<"a.ts", "b.ts">>, Null,
                                         encodeSegment(<<0, 0, 0, 0>>), <<>>)])
  ELSE IF text = NoMappingsText
  THEN Some([sectioned |-> FALSE,
             map |-> SourceMapV3ObjectOf(1, <<"a.ts">>, Null, Missing, <<>>)])
  ELSE IF text = NoSourcesText
  THEN Some([sectioned |-> FALSE,
             map |-> SourceMapV3ObjectOf(1, Missing, Null, encodeSegment(<<0, 0, 0, 0>>), <<>>)])
  ELSE IF text = SectionsText
  THEN Some([sectioned |-> TRUE,
             sections |->
               << Section(Offset(0, 0), SourceMapV3ObjectOf(1, <<"a.ts">>, Null,
                                           encodeSegment(<<0, 0, 0, 0>>), <<>>)),
                  Section(Offset(1, 0), SourceMapV3ObjectOf(2, <<"b.ts">>, Null,
                                           encodeSegment(<<0, 0, 0, 0>>), <<>>)) >>])
  ELSE IF text = SectionWithoutSourcesText
  THEN Some([sectioned |-> TRUE,
             sections |->
               << Section(Offset(0, 0), SourceMapV3ObjectOf(1, <<"a.ts">>, Null,
                                           encodeSegment(<<0, 0, 0, 0>>), <<>>)),
                  Section(Offset(1, 0), SourceMapV3ObjectOf(2, Missing, Null,
                                           encodeSegment(<<0, 0, 0, 0>>), <<>>)) >>])
  ELSE Null

\* the byte order mark, the character with code 0xFEFF
BOM == "FEFF"

RECURSIVE skipWhitespace(_)
skipWhitespace(content) ==
  IF content # <<>> /\ content[1] = "\n" THEN skipWhitespace(Tail(content)) ELSE content

\* JSON.parse: leading whitespace, then one JSON text; anything else is a SyntaxError
JSONParse(content) ==
  LET rest == skipWhitespace(content)
  IN  IF Len(rest) = 1 /\ rest[1] \in ValidTexts
      THEN [threw |-> FALSE, value |-> JSONValue(rest[1])]
      ELSE [threw |-> TRUE, value |-> Null]

RECURSIVE indexOf(_, _, _)
indexOf(content, char, from) ==
  IF from >= Len(content) THEN -1
  ELSE IF At(content, from) = char THEN from
  ELSE indexOf(content, char, from + 1)

\* String.prototype.substring(start): a negative start is 0
substring(content, start) ==
  Slice(content, IF start < 0 THEN 0 ELSE IF start > Len(content) THEN Len(content) ELSE start,
        Len(content))

\* content.slice(0, 3) === ')]}'
startsWithXSSIGuard(content) ==
  Len(content) >= 3 /\ Slice(content, 0, 3) = <<")", "]", "}">>

stripXSSIGuard(content) ==
  IF startsWithXSSIGuard(content) THEN substring(content, indexOf(content, "\n", 0))
  ELSE content

stripBOM(content) ==
  IF content # <<>> /\ content[1] = BOM THEN Tail(content) ELSE content

updatedContent(content) == stripBOM(stripXSSIGuard(content))

\* a variant that reports a parse failure with the message of a load failure
couldNotParseAsLoad(PH1, PH2) ==
  [message |-> "Could not load content", PH1 |-> PH1, PH2 |-> PH2]

\* i18nString(UIStrings.couldNotLoadContentForSS, {PH1, PH2})
couldNotLoadContentForSS(PH1, PH2) ==
  [message |-> "Could not load content", PH1 |-> PH1, PH2 |-> PH2]

\* i18nString(UIStrings.couldNotParseContentForSS, {PH1, PH2})
couldNotParseContentForSS(PH1, PH2) ==
  [message |-> "Could not parse content", PH1 |-> PH1, PH2 |-> PH2]

\* sourceMappingURL.startsWith('data:')
startsWithData(url) == url = "data:application/json;base64,e30="

baseURLOf(compiledURL, sourceMapURL) ==
  IF startsWithData(sourceMapURL) THEN compiledURL ELSE sourceMapURL

\* new TextSourceMap(compiledURL, sourceMapURL, payload, initiator) on the parsed
\* value: 'sections' in null raises, and so does a section map without sources
constructFrom(compiledURL, sourceMapURL, value, lists) ==
  IF value = Null
  THEN [sourceInfos |-> <<>>, sourceMapToSourceList |-> lists, threw |-> TRUE]
  ELSE constructWith(baseURLOf(compiledURL, sourceMapURL), value[1], lists)

NoError == [message |-> "", PH1 |-> "", PH2 |-> ""]

\* the call load(sourceMapURL, compiledURL, initiator), awaiting the resource
LoadCall(sourceMapURL) ==
  [sourceMapURL |-> sourceMapURL, state |-> "awaiting", resource |-> Null, error |-> NoError]

SourceMapURLs ==
  {"http://h/gen.js.map", "http://g/gen.js.map", "data:application/json;base64,e30="}

Prefixes ==
  { <<>>, <<")", "]", "}", "'", "\n">>, <<")", "]", "}", "'">>, <<BOM>>,
    <<")", "]", "}", "'", "\n", BOM>>, <<BOM, ")", "]", "}", "'", "\n">> }

Contents ==
  {prefix \o <<text>> : prefix \in Prefixes, text \in ValidTexts \cup {TruncatedText, EmptyText}}

LoadErrors == {"net::ERR_FAILED", "HTTP error: status code 404"}

\* no map exists while the load is awaited
InitLoad ==
  \E sourceMapURL \in SourceMapURLs :
    /\ loading = Some(LoadCall(sourceMapURL))
    /\ json = Null
    /\ mappingsInternal = Null
    /\ sourceInfos = <<>>
    /\ sourceMapToSourceList = <<>>
    /\ call = NoCall
    /\ other = Null
    /\ NewManager

Awaiting == loading # Null /\ loading[1].state = "awaiting"

\* the resource loader rejects: the first catch
LoadResourceRejects ==
  /\ Awaiting
  /\ \E message \in LoadErrors :
       loading' = Some([loading[1] EXCEPT
                          !.state = "rejected",
                          !.resource = Some([failed |-> TRUE, content |-> <<>>]),
                          !.error = couldNotLoadContentForSS(loading[1].sourceMapURL, message)])
  /\ UNCHANGED <<mapVars, other, managerVars>>

\* the resource loader resolves: the guard and the mark are stripped, the rest is
\* parsed and the map constructed, or the second catch rejects
LoadResourceResolves ==
  /\ Awaiting
  /\ \E content \in Contents :
       LET parsed == JSONParse(updatedContent(content))
           this   == constructFrom(compiledURLInternal, loading[1].sourceMapURL,
                                   parsed.value, sourceMapToSourceList)
           done   == [loading[1] EXCEPT
                        !.resource = Some([failed |-> FALSE, content |-> content])]
       IN  IF parsed.threw
           THEN /\ loading' = Some([done EXCEPT
                       !.state = "rejected",
                       !.error = couldNotParseContentForSS(loading[1].sourceMapURL,
                                                           "SyntaxError")])
                /\ UNCHANGED mapVars
           ELSE IF this.threw
           THEN /\ loading' = Some([done EXCEPT
                       !.state = "rejected",
                       !.error = couldNotParseContentForSS(loading[1].sourceMapURL,
                                                           "TypeError")])
                /\ sourceMapToSourceList' = this.sourceMapToSourceList
                /\ UNCHANGED <<json, mappingsInternal, sourceInfos, call>>
           ELSE /\ loading' = Some([done EXCEPT !.state = "returned"])
                /\ json' = parsed.value
                /\ mappingsInternal' = Null
                /\ sourceInfos' = this.sourceInfos
                /\ sourceMapToSourceList' = this.sourceMapToSourceList
                /\ UNCHANGED call
  /\ UNCHANGED <<other, managerVars>>

\* queries on the map that load returned
Returned == loading # Null /\ loading[1].state = "returned"

ReturnedMappings == Returned /\ Mappings

ReturnedFindEntry == Returned /\ FindEntry

ReturnedSourceURLs == Returned /\ SourceURLs

NextLoad ==
  \/ LoadResourceRejects
  \/ LoadResourceResolves
  \/ ReturnedMappings
  \/ ReturnedFindEntry
  \/ ReturnedSourceURLs

SpecLoad == InitLoad /\ [][NextLoad]_vars

(***************************************************************************)
(* Two maps.  The second map is constructed, while the first still holds   *)
(* its payload, from the same payload object or from another object with   *)
(* the same content, with the same base URL or with another one.  Both     *)
(* constructors write the module's WeakMap, whose keys are the section map *)
(* objects.                                                                *)
(***************************************************************************)
SharedPayloads ==
  {[sectioned |-> FALSE, map |-> SourceMapV3Object(1, mappings)] :
     mappings \in MappingsOfLength(0) \cup MappingsOfLength(1)}
  \cup
  {[sectioned |-> TRUE,
    sections |-> << Section(Offset(0, 0), SourceMapV3Object(1, first)),
                    Section(Offset(1, 0), SourceMapV3Object(2, second)) >>] :
      first \in MappingsOfLength(1), second \in MappingsOfLength(1)}

\* another object with the content of the section map: another key of the WeakMap
copyOfMap(map) == [map EXCEPT !.id = map.id + 2]

copyOfPayload(payload) ==
  IF payload.sectioned
  THEN [payload EXCEPT !.sections =
          [k \in 1..Len(payload.sections) |->
             [payload.sections[k] EXCEPT !.map = copyOfMap(payload.sections[k].map)]]]
  ELSE [payload EXCEPT !.map = copyOfMap(payload.map)]

InitShared ==
  \E payload \in SharedPayloads :
    /\ json = Some(payload)
    /\ mappingsInternal = Null
    /\ sourceInfos = construct(payload).sourceInfos
    /\ sourceMapToSourceList = construct(payload).sourceMapToSourceList
    /\ call = NoCall
    /\ Alone

\* new TextSourceMap(compiledURL, otherSourceMappingURL, payload, initiator).  The
\* field payload records the constructor's argument, the field same whether that is
\* the very object the first map was constructed from.
ConstructOther ==
  /\ other = Null
  /\ json # Null
  /\ \E base \in {baseURL, otherBaseURL}, same \in BOOLEAN :
       LET payload == IF same THEN json[1] ELSE copyOfPayload(json[1])
           this    == constructWith(base, payload, sourceMapToSourceList)
       IN  /\ other' = Some([json |-> Some(payload), mappingsInternal |-> Null,
                              sourceInfos |-> this.sourceInfos, baseURL |-> base,
                              payload |-> payload, same |-> same])
           /\ sourceMapToSourceList' = this.sourceMapToSourceList
  /\ UNCHANGED <<json, mappingsInternal, sourceInfos, call, loading, managerVars>>

\* mappings() on the second map
OtherMappings ==
  /\ other # Null
  /\ LET this == ensureMappingsProcessedOf(other[1], sourceMapToSourceList)
     IN  other' = Some([other[1] EXCEPT !.json = this.json,
                                        !.mappingsInternal = this.mappingsInternal,
                                        !.sourceInfos = this.sourceInfos])
  /\ UNCHANGED <<mapVars, loading, managerVars>>

NextShared ==
  \/ ConstructOther
  \/ OtherMappings
  \/ Mappings
  \/ FindEntry
  \/ FindEntryRanges
  \/ SourceLineMapping
  \/ FindReverseEntries
  \/ FindReverseRanges
  \/ FindRanges

SpecShared == InitShared /\ [][NextShared]_vars

(***************************************************************************)
(* SourceMapManager.  #clientData is the sequence of its entries in        *)
(* insertion order, each with its key in the field client; the sourceMap   *)
(* of an entry is 0 while undefined, and its load is the number of the     *)
(* TextSourceMap.load call whose promise, chained with the handlers of     *)
(* attachSourceMap, is its sourceMapPromise, or 0 for                      *)
(* Promise.resolve(undefined).  A ClientData object is identified by its   *)
(* load.  The map a load returns is identified by the number of the load.  *)
(* #sourceMaps is the set of its entries.  A manager is the record of its  *)
(* fields, of the inspected URL of its target and of what it dispatched    *)
(* and started.                                                            *)
(***************************************************************************)
Clients == {"c1", "c2"}

\* Common.ParsedURL.ParsedURL.completeURL, which is null when neither the base URL
\* nor the href is a valid absolute URL
completeURLOrNull(base, href) ==
  IF href \in {"http://h/gen.js", "http://h/gen.js.map"} THEN Some(href)
  ELSE IF base \notin {"http://h/", "http://h/gen.js"} THEN Null
  ELSE IF href = "gen.js" THEN Some("http://h/gen.js")
  ELSE IF href = "gen.js.map" THEN Some("http://h/gen.js.map")
  ELSE Null

\* completeURL(getBaseUrl(target), url) ?? url
resolveRelativeSourceURL(inspected, url) ==
  IF completeURLOrNull(inspected, url) # Null THEN completeURLOrNull(inspected, url)[1]
  ELSE url

ClientData(client, relativeSourceURL, relativeSourceMapURL, load) ==
  [client |-> client, relativeSourceURL |-> relativeSourceURL,
   relativeSourceMapURL |-> relativeSourceMapURL, sourceMap |-> 0, load |-> load]

hasClientData(data, client) == \E k \in 1..Len(data) : data[k].client = client

getClientData(data, client) == data[CHOOSE k \in 1..Len(data) : data[k].client = client]

\* the source map recorded for the client in the data, 0 for none
sourceMapForClientOf(data, client) == IF hasClientData(data, client) THEN getClientData(data, client).sourceMap ELSE 0

Event(type, client, sourceMap) == [type |-> type, client |-> client, sourceMap |-> sourceMap]

Manager ==
  [isEnabled |-> isEnabled, inspectedURL |-> inspectedURL, clientData |-> clientData,
   sourceMaps |-> sourceMaps, events |-> events, loads |-> loads, threw |-> FALSE]

\* a variant that records the client only when it starts a load
attachSourceMapWhenLoading(m, client, relativeSourceURL, relativeSourceMapURL) ==
  IF hasClientData(m.clientData, client) THEN [m EXCEPT !.threw = TRUE]
  ELSE IF relativeSourceMapURL = Undefined THEN m
  ELSE
    LET sourceURL    == resolveRelativeSourceURL(m.inspectedURL, relativeSourceURL)
        sourceMapURL == completeURLOrNull(sourceURL, relativeSourceMapURL)
    IN  IF m.isEnabled /\ sourceMapURL # Null
        THEN [m EXCEPT
                !.events = Append(@, Event("SourceMapWillAttach", client, 0)),
                !.loads = Append(@, [client |-> client, state |-> "pending"]),
                !.clientData =
                   Append(@, ClientData(client, relativeSourceURL, relativeSourceMapURL,
                                        Len(m.loads) + 1))]
        ELSE m

attachSourceMap(m, client, relativeSourceURL, relativeSourceMapURL) ==
  IF hasClientData(m.clientData, client) THEN [m EXCEPT !.threw = TRUE]
  ELSE IF relativeSourceMapURL = Undefined THEN m
  ELSE
    LET sourceURL    == resolveRelativeSourceURL(m.inspectedURL, relativeSourceURL)
        sourceMapURL == completeURLOrNull(sourceURL, relativeSourceMapURL)
    IN  IF m.isEnabled /\ sourceMapURL # Null
        THEN [m EXCEPT
                !.events = Append(@, Event("SourceMapWillAttach", client, 0)),
                !.loads = Append(@, [client |-> client, state |-> "pending"]),
                !.clientData =
                   Append(@, ClientData(client, relativeSourceURL, relativeSourceMapURL,
                                        Len(m.loads) + 1))]
        ELSE [m EXCEPT
                !.clientData =
                   Append(@, ClientData(client, relativeSourceURL, relativeSourceMapURL, 0))]

\* a variant that leaves the source map of the client in the source-map-to-client map
detachSourceMapKeeping(m, client) == [m EXCEPT !.clientData = SelectSeq(@, LAMBDA data : data.client # client), !.events = IF hasClientData(m.clientData, client) THEN Append(@, Event(IF sourceMapForClientOf(m.clientData, client) # 0 THEN "SourceMapDetached" ELSE "SourceMapFailedToAttach", client, sourceMapForClientOf(m.clientData, client))) ELSE @]

detachSourceMap(m, client) ==
  IF ~hasClientData(m.clientData, client) THEN m
  ELSE
    LET sourceMap == getClientData(m.clientData, client).sourceMap
        remaining == SelectSeq(m.clientData, LAMBDA data : data.client # client)
    IN  IF sourceMap # 0
        THEN [m EXCEPT
                !.clientData = remaining,
                !.sourceMaps = {entry \in @ : entry.sourceMap # sourceMap},
                !.events = Append(@, Event("SourceMapDetached", client, sourceMap))]
        ELSE [m EXCEPT
                !.clientData = remaining,
                !.events = Append(@, Event("SourceMapFailedToAttach", client, 0))]

\* the loop of setEnabled and of inspectedURLChanged over the copy of the entries
RECURSIVE reattach(_, _, _)
reattach(m, entries, k) ==
  IF k > Len(entries) THEN m
  ELSE reattach(
         attachSourceMap(detachSourceMap(m, entries[k].client), entries[k].client,
                         entries[k].relativeSourceURL, entries[k].relativeSourceMapURL),
         entries, k + 1)

\* a variant that only sets the flag
setEnabledFlag(m, enabled) == [m EXCEPT !.isEnabled = enabled]

setEnabled(m, enabled) ==
  IF enabled = m.isEnabled THEN m
  ELSE reattach([m EXCEPT !.isEnabled = enabled], m.clientData, 1)

\* the listener of TargetManagerEvents.InspectedURLChanged; isTarget: the event is
\* about the target of this manager
inspectedURLChanged(m, isTarget) ==
  IF ~isTarget THEN m
  ELSE reattach(m, m.clientData, 1)

\* a variant of the fulfilment handler without the check that the ClientData of the
\* load is still the client's
onSourceMapAlways(m, load) ==
  LET settled == [m EXCEPT !.loads[load].state = "fulfilled"]
      client  == m.loads[load].client
  IN  [settled EXCEPT
         !.clientData = [k \in 1..Len(@) |->
                           IF @[k].client = client THEN [@[k] EXCEPT !.sourceMap = load]
                           ELSE @[k]],
         !.sourceMaps = {entry \in @ : entry.sourceMap # load}
                          \cup {[sourceMap |-> load, client |-> client]},
         !.events = Append(@, Event("SourceMapAttached", client, load))]

\* this.#clientData.get(client) === clientData, for the ClientData of the load
isCurrent(m, load) ==
  /\ hasClientData(m.clientData, m.loads[load].client)
  /\ getClientData(m.clientData, m.loads[load].client).load = load

\* the fulfilment handler of attachSourceMap, once load has returned its map
\* a variant of the fulfilment handler that attaches the map without an event
onSourceMapSilently(m, load) == [onSourceMapAlways(m, load) EXCEPT !.events = m.events]

onSourceMap(m, load) ==
  LET settled == [m EXCEPT !.loads[load].state = "fulfilled"]
      client  == m.loads[load].client
  IN  IF isCurrent(m, load)
      THEN [settled EXCEPT
              !.clientData = [k \in 1..Len(@) |->
                                IF @[k].client = client THEN [@[k] EXCEPT !.sourceMap = load]
                                ELSE @[k]],
              !.sourceMaps = {entry \in @ : entry.sourceMap # load}
                               \cup {[sourceMap |-> load, client |-> client]},
              !.events = Append(@, Event("SourceMapAttached", client, load))]
      ELSE settled

\* a variant of the rejection handler without the check that the ClientData of the
\* load is still the client's
onErrorAlways(m, load) == [m EXCEPT !.loads[load].state = "rejected", !.events = Append(@, Event("SourceMapFailedToAttach", m.loads[load].client, 0))]

\* the rejection handler of attachSourceMap
onError(m, load) ==
  LET settled == [m EXCEPT !.loads[load].state = "rejected"]
  IN  IF isCurrent(m, load)
      THEN [settled EXCEPT
              !.events = Append(@, Event("SourceMapFailedToAttach", m.loads[load].client, 0))]
      ELSE settled

\* what sourceMapPromise of the ClientData of a load resolves to, once settled
valueOf(m, load) ==
  IF load = 0 THEN 0
  ELSE IF m.loads[load].state = "fulfilled" THEN load
  ELSE 0

sourceMapForClient(m, client) ==
  IF hasClientData(m.clientData, client) THEN getClientData(m.clientData, client).sourceMap
  ELSE 0

\* the client of the source map, or Undefined
clientForSourceMap(m, sourceMap) ==
  IF \E entry \in m.sourceMaps : entry.sourceMap = sourceMap
  THEN (CHOOSE entry \in m.sourceMaps : entry.sourceMap = sourceMap).client
  ELSE Undefined

RelativeSourceMapURLs == {Undefined, "gen.js.map"}

InspectedURLs == {"", "http://h/"}

InitManager ==
  /\ NewManager
  /\ json = Null
  /\ mappingsInternal = Null
  /\ sourceInfos = <<>>
  /\ sourceMapToSourceList = <<>>
  /\ call = NoCall
  /\ other = Null
  /\ loading = Null

\* the loads that will dispatch an event when they settle
pendingLoads(m) == {load \in 1..Len(m.loads) : m.loads[load].state = "pending" /\ isCurrent(m, load)}

\* the manager after an operation, and what the operation exposed; the events of a
\* run are bounded, those that the pending loads are still to dispatch included, so
\* that a load that was started can always complete
Becomes(m, exposed) ==
  /\ Len(m.events) + Cardinality(pendingLoads(m)) <= MaxEvents
  /\ isEnabled' = m.isEnabled
  /\ inspectedURL' = m.inspectedURL
  /\ clientData' = m.clientData
  /\ sourceMaps' = m.sourceMaps
  /\ events' = m.events
  /\ loads' = m.loads
  /\ outcome' = [exposed EXCEPT !.threw = m.threw]
  /\ UNCHANGED <<mapVars, other, loading>>

AttachSourceMap ==
  \E client \in Clients, relativeSourceMapURL \in RelativeSourceMapURLs :
    /\ Becomes(attachSourceMap(Manager, client, "gen.js", relativeSourceMapURL),
               [NoOutcome EXCEPT !.op = "attachSourceMap", !.client = client,
                                 !.relativeSourceMapURL = relativeSourceMapURL])
    /\ UNCHANGED promises

DetachSourceMap ==
  \E client \in Clients :
    /\ Becomes(detachSourceMap(Manager, client),
               [NoOutcome EXCEPT !.op = "detachSourceMap", !.client = client])
    /\ UNCHANGED promises

SetEnabled ==
  \E enabled \in BOOLEAN :
    /\ Becomes(setEnabled(Manager, enabled), [NoOutcome EXCEPT !.op = "setEnabled"])
    /\ UNCHANGED promises

\* the inspected URL of a target changes and TargetManager dispatches the event
InspectedURLChanged ==
  \E isTarget \in BOOLEAN, url \in InspectedURLs :
    /\ Becomes(inspectedURLChanged(
                 [Manager EXCEPT !.inspectedURL = IF isTarget THEN url ELSE @], isTarget),
               [NoOutcome EXCEPT !.op = "inspectedURLChanged"])
    /\ UNCHANGED promises

\* sourceMapForClientPromise(client): the promise is pending while the load of the
\* client's ClientData is, and is resolved otherwise
SourceMapForClientPromise ==
  \E client \in Clients :
    LET load == IF hasClientData(clientData, client)
                THEN getClientData(clientData, client).load
                ELSE 0
        pending == load # 0 /\ loads[load].state = "pending"
    IN  /\ promises' = IF pending THEN promises \cup {[client |-> client, load |-> load]}
                        ELSE promises
        /\ Becomes(Manager,
             [NoOutcome EXCEPT
                !.op = "sourceMapForClientPromise", !.client = client,
                !.resolved = IF pending THEN {}
                             ELSE {[client |-> client, load |-> load,
                                    value |-> valueOf(Manager, load)]}])

\* the promises of a load that has just settled
ResolvedBy(m, load) ==
  {[client |-> promise.client, load |-> load, value |-> valueOf(m, load)] :
     promise \in {promise \in promises : promise.load = load}}

\* TextSourceMap.load returns a map: the fulfilment handler runs, then the promises
\* handed out for the ClientData resolve
LoadReturns ==
  \E load \in 1..Len(loads) :
    /\ loads[load].state = "pending"
    /\ Becomes(onSourceMap(Manager, load),
               [NoOutcome EXCEPT !.op = "load", !.client = loads[load].client,
                  !.resolved = ResolvedBy(onSourceMap(Manager, load), load)])
    /\ promises' = {promise \in promises : promise.load # load}

LoadRejects ==
  \E load \in 1..Len(loads) :
    /\ loads[load].state = "pending"
    /\ Becomes(onError(Manager, load),
               [NoOutcome EXCEPT !.op = "load", !.client = loads[load].client,
                  !.resolved = ResolvedBy(onError(Manager, load), load)])
    /\ promises' = {promise \in promises : promise.load # load}

NextManager ==
  \/ AttachSourceMap
  \/ DetachSourceMap
  \/ SetEnabled
  \/ InspectedURLChanged
  \/ SourceMapForClientPromise
  \/ LoadReturns
  \/ LoadRejects

SpecManager == InitManager /\ [][NextManager]_vars

(***************************************************************************)
(* The same manager when every load that was started settles: the resource *)
(* loader resolves or rejects each request after a finite time, so the     *)
(* settling of each pending load is weakly fair.  The operations of the    *)
(* callers are under no fairness; they act while fewer than                *)
(* MaxSettlingEvents events are dispatched or due.  The query              *)
(* sourceMapForClientPromise changes nothing of the manager and is left    *)
(* out.                                                                    *)
(***************************************************************************)
CallerActs ==
  /\ Len(events) + Cardinality(pendingLoads(Manager)) < MaxSettlingEvents
  /\ \/ AttachSourceMap
     \/ DetachSourceMap
     \/ SetEnabled
     \/ InspectedURLChanged

NextManagerSettling ==
  \/ CallerActs
  \/ LoadReturns
  \/ LoadRejects

LoadSettles(load) ==
  /\ load <= Len(loads)
  /\ loads[load].state = "pending"
  /\ LoadReturns \/ LoadRejects
  /\ loads'[load].state # "pending"

SpecManagerSettling ==
  /\ InitManager
  /\ [][NextManagerSettling]_vars
  /\ \A load \in 1..MaxEvents : WF_vars(LoadSettles(load))

(***************************************************************************)
(* parseMap alone, on the mappings strings made of items: a segment of 1,  *)
(* 4 or 5 fields behind its separator (nothing or ';' before the first     *)
(* segment; ',', ';' or ';;' before a later one), at a section offset, on  *)
(* top of the entries of an earlier section.                               *)
(***************************************************************************)
ParseSegments ==
  { <<0>>, <<2>>, <<1, 0, 0, 0>>, <<0, 1, 1, 1>>, <<1, 0, 1, 0, 0>>, <<2, 1, -1, 1, 1>> }

Item(separator, segment) == [separator |-> separator, segment |-> segment]

RECURSIVE ItemsOfLength(_)
ItemsOfLength(n) ==
  IF n = 0 THEN {<<>>}
  ELSE IF n = 1
  THEN {<<Item(separator, segment)>> : separator \in {<<>>, <<";">>}, segment \in ParseSegments}
  ELSE {Append(items, Item(separator, segment)) :
          items \in ItemsOfLength(n - 1),
          separator \in {<<",">>, <<";">>, <<";", ";">>}, segment \in ParseSegments}

RECURSIVE encodeItems(_)
encodeItems(items) ==
  IF items = <<>> THEN <<>>
  ELSE encodeItems(SubSeq(items, 1, Len(items) - 1))
         \o items[Len(items)].separator \o encodeSegment(items[Len(items)].segment)

ParseNames == <<"n0", "n1">>

\* the section map of the items, with two sources and two names
mapOfItems(items) == [SourceMapV3Object(1, encodeItems(items)) EXCEPT !.names = ParseNames]

ParseOffsets == {Offset(0, 0), Offset(1, 2)}

\* the entries of the sections decoded before: none, or one entry on line 0
EarlierMappings == { <<>>, <<SourceMapEntry(0, 1, Undefined, Null, Null, Undefined)>> }

\* the arguments of a call of parseMap that is still to be made
ParseArguments(items, offset, mappings) ==
  [op |-> "none", items |-> items, offset |-> offset, mappings |-> mappings, result |-> <<>>]

InitParse ==
  /\ \E n \in 0..MaxParseSegments :
       \E items \in ItemsOfLength(n), offset \in ParseOffsets, mappings \in EarlierMappings :
         call = ParseArguments(items, offset, mappings)
  /\ json = Null
  /\ mappingsInternal = Null
  /\ sourceInfos = <<>>
  /\ sourceMapToSourceList = <<>>
  /\ Alone

\* parseMap(map, offset.line, offset.column) of a map whose sources the constructor
\* has resolved
ParseMap ==
  /\ call.op = "none"
  /\ call' =
       [call EXCEPT
          !.op = "parseMap",
          !.result =
            parseMap(mapOfItems(call.items), call.offset.line, call.offset.column,
                     call.mappings,
                     construct([sectioned |-> FALSE, map |-> mapOfItems(call.items)])
                       .sourceMapToSourceList)]
  /\ UNCHANGED <<json, mappingsInternal, sourceInfos, sourceMapToSourceList>>
  /\ UNCHANGED <<other, loading, managerVars>>

NextParse == ParseMap

SpecParse == InitParse /\ [][NextParse]_vars

(***************************************************************************)
(* decodeVLQ alone, on the strings of up to MaxFieldLength characters:     *)
(* base64 digits with and without the continuation bit, separators and     *)
(* characters outside the alphabet; the iterator stands at the start of    *)
(* the string or behind its first character.                               *)
(***************************************************************************)
FieldCharacters == {"A", "B", "C", "D", "f", "g", "h", "j", "/", ",", "!", "="}

RECURSIVE StringsOfLength(_)
StringsOfLength(n) ==
  IF n = 0 THEN {<<>>}
  ELSE {Append(string, char) : string \in StringsOfLength(n - 1), char \in FieldCharacters}

\* the arguments of a call of decodeVLQ that is still to be made
IteratorAt(string, position) ==
  [op |-> "none", string |-> string, position |-> position, result |-> 0, next |-> position]

InitVLQ ==
  /\ \E n \in 1..MaxFieldLength :
       \E string \in StringsOfLength(n), position \in 0..1 :
         call = IteratorAt(string, position)
  /\ json = Null
  /\ mappingsInternal = Null
  /\ sourceInfos = <<>>
  /\ sourceMapToSourceList = <<>>
  /\ Alone

\* decodeVLQ(stringCharIterator): the number returned and where the iterator stands
DecodeVLQ ==
  /\ call.op = "none"
  /\ call' =
       [call EXCEPT
          !.op = "decodeVLQ",
          !.result = decodeVLQ(call.string, call.position).value,
          !.next = decodeVLQ(call.string, call.position).position]
  /\ UNCHANGED <<json, mappingsInternal, sourceInfos, sourceMapToSourceList>>
  /\ UNCHANGED <<other, loading, managerVars>>

NextVLQ == DecodeVLQ

SpecVLQ == InitVLQ /\ [][NextVLQ]_vars

(***************************************************************************)
(* The decode loop of parseMap, one iteration per step, on the mappings    *)
(* strings of up to MaxMappingsLength characters of any kind: digits with  *)
(* and without the continuation bit, both separators and a character       *)
(* outside the alphabet.                                                   *)
(***************************************************************************)
MappingsCharacters == {"A", "D", "g", ",", ";", "!"}

RECURSIVE AnyMappingsOfLength(_)
AnyMappingsOfLength(n) ==
  IF n = 0 THEN {<<>>}
  ELSE {Append(string, char) : string \in AnyMappingsOfLength(n - 1), char \in MappingsCharacters}

ResolvedSources == Some(<<"http://h/a.ts", "http://h/b.ts">>)

\* parseMap before the first iteration of its loop
InitDecode ==
  /\ \E n \in 0..MaxMappingsLength :
       \E string \in AnyMappingsOfLength(n) :
         call = [op |-> "parseMap", string |-> string, iterations |-> 0,
                 s |-> parserState(ResolvedSources, 0, 0, <<>>)]
  /\ json = Null
  /\ mappingsInternal = Null
  /\ sourceInfos = <<>>
  /\ sourceMapToSourceList = <<>>
  /\ Alone

\* one iteration of while (true)
Iterates ==
  /\ ~call.s.done
  /\ call' = [call EXCEPT
                !.s = parseMapIteration(call.string, ResolvedSources, ParseNames, call.s),
                !.iterations = @ + 1]
  /\ UNCHANGED <<json, mappingsInternal, sourceInfos, sourceMapToSourceList>>
  /\ UNCHANGED <<other, loading, managerVars>>

NextDecode == Iterates

SpecDecode == InitDecode /\ [][NextDecode]_vars

(***************************************************************************)
(* The properties.  Forward is the forward entry sequence of the           *)
(* materialized map; positions are compared lexicographically.             *)
(***************************************************************************)
Materialized == mappingsInternal # Null
Forward == IF Materialized THEN mappingsInternal[1] ELSE <<>>

Precedes(line1, column1, line2, column2) ==
  line1 < line2 \/ (line1 = line2 /\ column1 < column2)
NotAfter(line1, column1, line2, column2) ==
  line1 < line2 \/ (line1 = line2 /\ column1 <= column2)

Max(S) == CHOOSE x \in S : \A y \in S : y <= x
Min(S) == CHOOSE x \in S : \A y \in S : x <= y

\* the forward entries (by index from 1) at or before a generated position
EntriesNotAfter(line, column) ==
  {k \in 1..Len(Forward) :
     NotAfter(Forward[k].lineNumber, Forward[k].columnNumber, line, column)}

\* the forward entries of a source URL
EntriesOf(url) == {k \in 1..Len(Forward) : Forward[k].sourceURL = url}
SourceLine(k) == Forward[k].sourceLineNumber[1]
SourceColumn(k) == Forward[k].sourceColumnNumber[1]

\* C1: findEntry returns the last entry of the forward sequence whose generated
\* position is at or before the query, and null exactly when the query precedes
\* the first entry or there are no entries.
C1_FindEntry ==
  call.op = "findEntry" =>
    LET S == EntriesNotAfter(call.lineNumber, call.columnNumber)
    IN  /\ IF S = {} THEN call.result = Null ELSE call.result = Some(Forward[Max(S)])
        /\ (call.result = Null) <=>
             (Len(Forward) = 0
                \/ Precedes(call.lineNumber, call.columnNumber,
                            Forward[1].lineNumber, Forward[1].columnNumber))

\* a query that lands between entries: some entries at or before it, some after
C1_Witness ==
  /\ call.op = "findEntry"
  /\ call.result # Null
  /\ Cardinality(EntriesNotAfter(call.lineNumber, call.columnNumber)) >= 2
  /\ Cardinality(EntriesNotAfter(call.lineNumber, call.columnNumber)) < Len(Forward)

\* the entries of a source URL on a source line
OnSourceLine(url, line) == {k \in EntriesOf(url) : Forward[k].sourceLineNumber = Some(line)}
\* the first and the last of a set of entries of one source line, in the order of
\* the reverse index: by source column, then by place in the forward sequence
FirstOf(S) ==
  CHOOSE k \in S : \A j \in S :
    SourceColumn(k) < SourceColumn(j) \/ (SourceColumn(k) = SourceColumn(j) /\ k <= j)
LastOf(S) ==
  CHOOSE k \in S : \A j \in S :
    SourceColumn(j) < SourceColumn(k) \/ (SourceColumn(j) = SourceColumn(k) /\ j <= k)

\* C2 (as stated): sourceLineMapping returns, among the entries of sourceURL on
\* the exact source line, the one with the greatest source column not exceeding
\* the column, and null if the source has no entry on that line.
C2_Original ==
  call.op = "sourceLineMapping" =>
    LET E == OnSourceLine(call.sourceURL, call.lineNumber)
        L == {k \in E : SourceColumn(k) <= call.columnNumber}
    IN  IF E = {} THEN call.result = Null
        ELSE L # {} =>
               /\ call.result # Null
               /\ call.result[1].sourceColumnNumber[1] = Max({SourceColumn(k) : k \in L})

\* C2 (amended): sourceLineMapping returns, among the entries of sourceURL on the
\* exact source line, the first one whose source column is at or after the
\* column; if the column exceeds every mapped column of the line, the last entry
\* of the line; null if the source has no entry on that line.
C2_SourceLineMapping ==
  call.op = "sourceLineMapping" =>
    LET E == OnSourceLine(call.sourceURL, call.lineNumber)
        G == {k \in E : SourceColumn(k) >= call.columnNumber}
    IN  IF E = {} THEN call.result = Null
        ELSE IF G = {} THEN call.result = Some(Forward[LastOf(E)])
        ELSE call.result = Some(Forward[FirstOf(G)])

\* a column between two mapped columns of the line: the entry after it is returned
C2_Witness ==
  /\ call.op = "sourceLineMapping"
  /\ call.result # Null
  /\ call.result[1].sourceColumnNumber[1] > call.columnNumber
  /\ \E k \in OnSourceLine(call.sourceURL, call.lineNumber) :
       SourceColumn(k) < call.columnNumber

\* C3: round trip.  For every forward entry e with a sourceURL, findEntry at e's
\* generated position returns an entry at that position, and sourceLineMapping at
\* e's source URL and original position returns an entry on the same source line
\* whose source column is at most e's.
C3_RoundTrip ==
  Materialized =>
    \A k \in 1..Len(Forward) :
      isTruthyUrl(Forward[k].sourceURL) =>
        LET there == findEntry(Forward, Forward[k].lineNumber, Forward[k].columnNumber)
            back  == sourceLineMapping(Forward, sourceInfos, Forward[k].sourceURL,
                                       SourceLine(k), SourceColumn(k))
        IN  /\ there # Null
            /\ there[1].lineNumber = Forward[k].lineNumber
            /\ there[1].columnNumber = Forward[k].columnNumber
            /\ back # Null
            /\ back[1].sourceLineNumber = Forward[k].sourceLineNumber
            /\ back[1].sourceColumnNumber[1] <= SourceColumn(k)

\* sourceLineMapping was called at the original position of an entry that is not
\* the first of its source line, on a map with entries on two source lines
C3_Witness ==
  /\ call.op = "sourceLineMapping"
  /\ call.result # Null
  /\ \E k \in OnSourceLine(call.sourceURL, call.lineNumber) :
       /\ SourceColumn(k) = call.columnNumber
       /\ \E j \in OnSourceLine(call.sourceURL, call.lineNumber) :
            SourceColumn(j) < SourceColumn(k)
  /\ \E j \in EntriesOf(call.sourceURL) : SourceLine(j) # call.lineNumber

\* C4: after materialization the forward sequence is in non-decreasing order of
\* generated position, whatever the order of the segments and of the sections.
C4_Sorted ==
  Materialized =>
    \A k \in 1..(Len(Forward) - 1) :
      NotAfter(Forward[k].lineNumber, Forward[k].columnNumber,
               Forward[k + 1].lineNumber, Forward[k + 1].columnNumber)

\* a map decoded out of order: the source lines of a section never decrease along
\* its mappings string, so an entry on a greater source line than a later entry's
\* was moved by the sort, or comes from a section listed out of order
C4_Witness ==
  /\ Materialized
  /\ \E j, k \in 1..Len(Forward) :
       /\ j < k
       /\ Forward[j].sourceLineNumber # Null
       /\ Forward[k].sourceLineNumber # Null
       /\ SourceLine(j) > SourceLine(k)
       /\ Precedes(Forward[j].lineNumber, Forward[j].columnNumber,
                   Forward[k].lineNumber, Forward[k].columnNumber)

\* the entries of a source URL at the greatest original position at or before
\* (line, column)
Closest(url, line, column) ==
  LET P == {k \in EntriesOf(url) : NotAfter(SourceLine(k), SourceColumn(k), line, column)}
  IN  {k \in P : \A j \in P :
         NotAfter(SourceLine(j), SourceColumn(j), SourceLine(k), SourceColumn(k))}

\* C5: findReverseEntries returns exactly the entries of sourceURL whose original
\* position is the greatest one at or before the query, each once, and the empty
\* list when there is none or the URL is unknown.
C5_FindReverseEntries ==
  call.op = "findReverseEntries" =>
    LET W == Closest(call.sourceURL, call.lineNumber, call.columnNumber)
    IN  /\ Len(call.result) = Cardinality(W)
        /\ \A i \in 1..Len(call.result) : \E k \in W : call.result[i] = Forward[k]
        /\ \A k \in W :
             Cardinality({i \in 1..Len(call.result) : call.result[i] = Forward[k]})
               = Cardinality({j \in W : Forward[j] = Forward[k]})

\* several entries share the original position asked for, and the source has
\* other entries as well
C5_Witness ==
  /\ call.op = "findReverseEntries"
  /\ Len(call.result) >= 2
  /\ Cardinality(EntriesOf(call.sourceURL)) > Len(call.result)


\* the runs of consecutive forward indices among a set W of entries: the first
\* entry of each run, and the forward index right after the run
RunStarts(W) == {k \in W : (k - 1) \notin W}
RunEnd(W, k) == Min({j \in (k + 1)..(Len(Forward) + 1) : j \notin W})
RunRange(W, k) ==
  TextRange(Forward[k].lineNumber, Forward[k].columnNumber,
            IF RunEnd(W, k) <= Len(Forward) THEN Forward[RunEnd(W, k)].lineNumber
            ELSE MaxInt32,
            IF RunEnd(W, k) <= Len(Forward) THEN Forward[RunEnd(W, k)].columnNumber
            ELSE MaxInt32)

\* C6: findReverseRanges returns one range per maximal run of consecutive forward
\* indices among the entries findReverseEntries selects, from the run's first
\* entry to the forward entry right after the run, or to (2^31-1, 2^31-1) at the
\* end of the forward sequence; the ranges are in ascending order and none
\* reaches into the next.
C6_FindReverseRanges ==
  call.op = "findReverseRanges" =>
    LET W == Closest(call.sourceURL, call.lineNumber, call.columnNumber)
    IN  /\ Len(call.result) = Cardinality(RunStarts(W))
        /\ \A k \in RunStarts(W) :
             call.result[Cardinality({j \in RunStarts(W) : j <= k})] = RunRange(W, k)
        /\ \A i \in 1..(Len(call.result) - 1) :
             /\ NotAfter(call.result[i].startLine, call.result[i].startColumn,
                         call.result[i + 1].startLine, call.result[i + 1].startColumn)
             /\ NotAfter(call.result[i].endLine, call.result[i].endColumn,
                         call.result[i + 1].startLine, call.result[i + 1].startColumn)

\* the selected entries lie in two runs, with another entry between them
C6_Witness ==
  /\ call.op = "findReverseRanges"
  /\ Len(call.result) >= 2

\* C7: when the last forward entry at or before the query has a sourceURL,
\* findEntryRanges returns a generated range from that entry's position to the
\* next forward entry's, or to (2^31-1, 2^31-1) when it is the last entry; it
\* returns null when the query precedes all entries or that entry has no
\* sourceURL.
C7_EntryRange ==
  call.op = "findEntryRanges" =>
    LET S == EntriesNotAfter(call.lineNumber, call.columnNumber)
    IN  IF S = {} \/ ~isTruthyUrl(Forward[Max(S)].sourceURL)
        THEN call.result = Null
        ELSE /\ call.result # Null
             /\ call.result[1].range =
                  TextRange(Forward[Max(S)].lineNumber, Forward[Max(S)].columnNumber,
                            IF Max(S) < Len(Forward) THEN Forward[Max(S) + 1].lineNumber
                            ELSE MaxInt32,
                            IF Max(S) < Len(Forward) THEN Forward[Max(S) + 1].columnNumber
                            ELSE MaxInt32)

\* the matched entry is followed by exactly one entry, whose position ends the range
C7_Witness ==
  /\ call.op = "findEntryRanges"
  /\ call.result # Null
  /\ Cardinality(EntriesNotAfter(call.lineNumber, call.columnNumber)) + 1 = Len(Forward)
  /\ call.result[1].range.endLine # MaxInt32

\* the entries of the matched entry's source at a later original position, and
\* the nearest of them
LaterInSource(k) ==
  {j \in EntriesOf(Forward[k].sourceURL) :
     Precedes(SourceLine(k), SourceColumn(k), SourceLine(j), SourceColumn(j))}
NextInSource(k) ==
  CHOOSE j \in LaterInSource(k) : \A i \in LaterInSource(k) :
    NotAfter(SourceLine(j), SourceColumn(j), SourceLine(i), SourceColumn(i))

\* the place (from 1) of forward entry k in the reverse index of its source
ReverseIndexOf(k) == reversedMappings(sourceInfos, Forward[k].sourceURL)
PlaceInReverseIndex(k) ==
  CHOOSE i \in 1..Len(ReverseIndexOf(k)) : ReverseIndexOf(k)[i] = k - 1

\* C8 (as stated): the sourceRange of findEntryRanges starts at the matched
\* entry's original position and ends at the original position of the entry that
\* follows the matched entry in the reverse index of its source, or at
\* (2^31-1, 2^31-1) when the matched entry is the last of the reverse index.
C8_Original ==
  (call.op = "findEntryRanges" /\ call.result # Null) =>
    LET k == Max(EntriesNotAfter(call.lineNumber, call.columnNumber))
        place == PlaceInReverseIndex(k)
    IN  call.result[1].sourceRange =
          TextRange(SourceLine(k), SourceColumn(k),
                    IF place < Len(ReverseIndexOf(k))
                    THEN SourceLine(ReverseIndexOf(k)[place + 1] + 1) ELSE MaxInt32,
                    IF place < Len(ReverseIndexOf(k))
                    THEN SourceColumn(ReverseIndexOf(k)[place + 1] + 1) ELSE MaxInt32)

\* C8 (amended): the sourceRange of findEntryRanges starts at the matched entry's
\* original position and ends at the nearest later original position among the
\* entries of its source, or at (2^31-1, 2^31-1) when the source has no entry at
\* a later original position.
C8_SourceRange ==
  (call.op = "findEntryRanges" /\ call.result # Null) =>
    LET k == Max(EntriesNotAfter(call.lineNumber, call.columnNumber))
    IN  call.result[1].sourceRange =
          TextRange(SourceLine(k), SourceColumn(k),
                    IF LaterInSource(k) # {} THEN SourceLine(NextInSource(k)) ELSE MaxInt32,
                    IF LaterInSource(k) # {} THEN SourceColumn(NextInSource(k))
                    ELSE MaxInt32)

\* the matched entry shares its original position with the entry after it in the
\* reverse index, and the source has an entry at a later original position
C8_Witness ==
  /\ call.op = "findEntryRanges"
  /\ call.result # Null
  /\ LET k == Max(EntriesNotAfter(call.lineNumber, call.columnNumber))
     IN  /\ LaterInSource(k) # {}
         /\ PlaceInReverseIndex(k) < Len(ReverseIndexOf(k))
         /\ SourceLine(ReverseIndexOf(k)[PlaceInReverseIndex(k) + 1] + 1) = SourceLine(k)
         /\ SourceColumn(ReverseIndexOf(k)[PlaceInReverseIndex(k) + 1] + 1) = SourceColumn(k)

\* an entry whose sourceURL the predicate accepts
Matches(k, predicate) ==
  isTruthyUrl(Forward[k].sourceURL) /\ Forward[k].sourceURL \in predicate
\* a position inside the half-open range [start, end)
Inside(range, line, column) ==
  /\ NotAfter(range.startLine, range.startColumn, line, column)
  /\ Precedes(line, column, range.endLine, range.endColumn)
InsideSome(ranges, line, column) ==
  \E i \in 1..Len(ranges) : Inside(ranges[i], line, column)
\* the last forward entry at its generated position
LastAtPosition(k) ==
  \A j \in (k + 1)..Len(Forward) :
    Forward[j].lineNumber # Forward[k].lineNumber
      \/ Forward[j].columnNumber # Forward[k].columnNumber

\* C9 (as stated): without isStartMatching, every forward entry whose sourceURL
\* satisfies the predicate has its generated position inside some range of
\* findRanges, and no other forward entry has, also when several entries share a
\* generated position.
C9_Original ==
  (call.op = "findRanges" /\ ~call.isStartMatching) =>
    \A k \in 1..Len(Forward) :
      Matches(k, call.predicate)
        <=> InsideSome(call.result, Forward[k].lineNumber, Forward[k].columnNumber)

\* C9 (amended): without isStartMatching, every forward entry that is the last
\* one at its generated position has that position inside some range of
\* findRanges if and only if its sourceURL satisfies the predicate.
C9_FindRanges ==
  (call.op = "findRanges" /\ ~call.isStartMatching) =>
    \A k \in 1..Len(Forward) :
      LastAtPosition(k) =>
        (Matches(k, call.predicate)
           <=> InsideSome(call.result, Forward[k].lineNumber, Forward[k].columnNumber))

\* two entries share a generated position, one accepted by the predicate and the
\* other not, and a range was returned
C9_Witness ==
  /\ call.op = "findRanges"
  /\ ~call.isStartMatching
  /\ call.result # <<>>
  /\ \E j, k \in 1..Len(Forward) :
       /\ j < k
       /\ Forward[j].lineNumber = Forward[k].lineNumber
       /\ Forward[j].columnNumber = Forward[k].columnNumber
       /\ Matches(j, call.predicate) # Matches(k, call.predicate)

\* C10: with isStartMatching and a first entry not at (0,0), the first range of
\* findRanges begins at (0,0) and ends at the first entry whose sourceURL is
\* absent or fails the predicate (unbounded if there is none); without
\* isStartMatching no range begins before the first entry that satisfies the
\* predicate; with no entries the result is empty.
C10_StartMatching ==
  call.op = "findRanges" =>
    LET failing == {k \in 1..Len(Forward) : ~Matches(k, call.predicate)}
        matching == {k \in 1..Len(Forward) : Matches(k, call.predicate)}
    IN  /\ Len(Forward) = 0 => call.result = <<>>
        /\ ( /\ call.isStartMatching
             /\ Len(Forward) > 0
             /\ (Forward[1].lineNumber # 0 \/ Forward[1].columnNumber # 0) ) =>
             /\ call.result # <<>>
             /\ call.result[1] =
                  TextRange(0, 0,
                            IF failing # {} THEN Forward[Min(failing)].lineNumber
                            ELSE MaxInt32,
                            IF failing # {} THEN Forward[Min(failing)].columnNumber
                            ELSE MaxInt32)
        /\ ~call.isStartMatching =>
             \A i \in 1..Len(call.result) :
               /\ matching # {}
               /\ NotAfter(Forward[Min(matching)].lineNumber,
                           Forward[Min(matching)].columnNumber,
                           call.result[i].startLine, call.result[i].startColumn)

\* the first entry is not at (0,0), the start is taken for matching, and the
\* range from (0,0) is closed by a later entry after at least one accepted entry
C10_Witness ==
  /\ call.op = "findRanges"
  /\ call.isStartMatching
  /\ Len(Forward) >= 2
  /\ (Forward[1].lineNumber # 0 \/ Forward[1].columnNumber # 0)
  /\ Matches(1, call.predicate)
  /\ call.result # <<>>
  /\ call.result[1].endLine # MaxInt32

(***************************************************************************)
(* The sources of the payload the map still holds: the places <<k, i>> of  *)
(* section k (in the order of eachSection) and source index i.             *)
(***************************************************************************)
SectionMaps == [k \in 1..Len(eachSection(json)) |-> eachSection(json)[k].map]

Places ==
  UNION {{<<k, i>> : i \in 0..(Len(SectionMaps[k].sources) - 1)} : k \in 1..Len(SectionMaps)}

ResolvedAt(place) == completeURL(baseURL, At(SectionMaps[place[1]].sources, place[2]))

PlacesOf(url) == {place \in Places : ResolvedAt(place) = url}

Listed(place) ==
  \E j \in 1..Len(SectionMaps[place[1]].x_google_ignoreList) :
    SectionMaps[place[1]].x_google_ignoreList[j] = place[2]

EarlierPlace(p, q) == p[1] < q[1] \/ (p[1] = q[1] /\ p[2] < q[2])

FirstPlaceOf(url) ==
  CHOOSE p \in PlacesOf(url) : \A q \in PlacesOf(url) : q = p \/ EarlierPlace(p, q)

HintAsked == json # Null /\ call.op = "hasIgnoreListHint"

\* C11 as stated: hasIgnoreListHint(url) is true exactly when url is the resolved URL
\* of some source whose index is in its section's x_google_ignoreList, also when the
\* URL is listed at several source indices or by several sections.
C11_Original ==
  HintAsked => (call.result <=> \E p \in PlacesOf(call.sourceURL) : Listed(p))

\* C11, amended: hasIgnoreListHint(url) is true exactly when url is the resolved URL
\* of a source and the first place that lists it (in section order, then source
\* index) has its index in that section's x_google_ignoreList; it is false for every
\* other URL, unknown URLs included.
C11_FirstOccurrence ==
  HintAsked =>
    (call.result <=> /\ PlacesOf(call.sourceURL) # {}
                     /\ Listed(FirstPlaceOf(call.sourceURL)))

\* a URL listed twice, whose second place only is in the ignore list, was asked for
C11_Witness ==
  /\ HintAsked
  /\ Cardinality(PlacesOf(call.sourceURL)) = 2
  /\ ~Listed(FirstPlaceOf(call.sourceURL))
  /\ \E p \in PlacesOf(call.sourceURL) : Listed(p)
  /\ call.result = FALSE

\* C12 as stated: every query operation on every constructed map, whatever its
\* arguments, returns a value and never raises.
C12_Original == call.op # "none" => ~call.threw

\* the map was constructed from a flat payload with sources and no mappings field
\* (the payload is still held: it is released only when materialization completes)
WithoutMappings == json # Null /\ ~json[1].sectioned /\ json[1].map.mappings = Missing

\* C13 as stated: on a map constructed from a payload with sources and no mappings
\* field, the first query and every later query complete without error, and
\* mappings() has zero entries.
C13_Original ==
  WithoutMappings =>
    /\ ~call.threw
    /\ (call.op = "mappings" => call.result = <<>>)
    /\ (mappingsInternal # Null => mappingsInternal[1] = <<>>)

(***************************************************************************)
(* TextSourceMap.load.  A content is a JSON text behind a framing; the     *)
(* framings a loader of source maps accepts are none, one guard line that  *)
(* starts with )]} and ends with a line feed, and a byte order mark.       *)
(***************************************************************************)
Settled == loading # Null /\ loading[1].state # "awaiting"

ResourceFailed == loading[1].resource[1].failed

LoadedText == loading[1].resource[1].content[Len(loading[1].resource[1].content)]

LoadedFraming ==
  SubSeq(loading[1].resource[1].content, 1, Len(loading[1].resource[1].content) - 1)

ParsesAsJSON ==
  /\ LoadedFraming \in { <<>>, <<")", "]", "}", "'", "\n">>, <<BOM>> }
  /\ LoadedText \in ValidTexts

\* the parsed value is an object whose section maps all have sources
Constructible == LoadedText \in {FlatText, NoMappingsText, SectionsText}

Rejected(message) ==
  /\ loading[1].state = "rejected"
  /\ loading[1].error.message = message
  /\ loading[1].error.PH1 = loading[1].sourceMapURL

\* C14: load either returns a fully constructed map or rejects, never both and never
\* with a partial map: it rejects with 'Could not load content' and the source map
\* URL when the resource load fails, with 'Could not parse content' and the source
\* map URL when JSON parsing or the construction of the map fails, and returns the
\* constructed map otherwise.
C14_Load ==
  Settled =>
    /\ (ResourceFailed => Rejected("Could not load content"))
    /\ (~ResourceFailed /\ ~(ParsesAsJSON /\ Constructible) =>
          Rejected("Could not parse content"))
    /\ (~ResourceFailed /\ ParsesAsJSON /\ Constructible => loading[1].state = "returned")
    /\ (loading[1].state = "rejected" =>
          json = Null /\ mappingsInternal = Null /\ sourceInfos = <<>>)
    /\ (loading[1].state = "returned" =>
          /\ loading[1].error = NoError
          /\ json # Null \/ mappingsInternal # Null
          /\ (json # Null =>
                /\ json = JSONValue(LoadedText)
                /\ \A place \in Places :
                     hasSourceInfo(sourceInfos,
                       completeURL(baseURLOf(compiledURLInternal, loading[1].sourceMapURL),
                                   At(SectionMaps[place[1]].sources, place[2])))))

\* the resource was loaded and parsed behind a guard line, and the construction of
\* the map failed on a section map without sources
C14_Witness ==
  /\ Settled
  /\ ~ResourceFailed
  /\ LoadedFraming = <<")", "]", "}", "'", "\n">>
  /\ LoadedText = SectionWithoutSourcesText
  /\ Rejected("Could not parse content")

(***************************************************************************)
(* Two maps.  What a map constructed alone from a payload is once          *)
(* materialized: every query computes its result from these two.           *)
(***************************************************************************)
AloneOf(base, payload) ==
  LET this == constructWith(base, payload, <<>>)
  IN  ensureMappingsProcessedOf(
        [json |-> Some(payload), mappingsInternal |-> Null, sourceInfos |-> this.sourceInfos],
        this.sourceMapToSourceList)

SameAsAlone(this, base, payload) ==
  this.mappingsInternal # Null =>
    /\ this.mappingsInternal = AloneOf(base, payload).mappingsInternal
    /\ this.sourceInfos = AloneOf(base, payload).sourceInfos

\* C15 as stated: whatever second map was constructed from the same payload object or
\* another one, with whatever base URL, and whatever was queried on either map, each
\* map once materialized has the entries and the reverse indices it has when it is
\* the only map, and so every query on it returns what it returns then.
C15_Original ==
  other # Null =>
    /\ SameAsAlone([mappingsInternal |-> mappingsInternal, sourceInfos |-> sourceInfos],
                   baseURL, other[1].payload)
    /\ SameAsAlone(other[1], other[1].baseURL, other[1].payload)

\* C16: mapsOrigin() returns true exactly when the forward sequence is not empty and
\* its first entry has line 0 or column 0, one of the two being enough; it returns
\* false for a map with zero entries.
C16_MapsOrigin ==
  call.op = "mapsOrigin" /\ ~call.threw =>
    /\ (Forward = <<>> => call.result = FALSE)
    /\ (Forward # <<>> =>
          (call.result <=> (Forward[1].lineNumber = 0 \/ Forward[1].columnNumber = 0)))

\* mapsOrigin() returned true for a map whose first entry is at line 0 and not at
\* column 0
C16_Witness ==
  /\ call.op = "mapsOrigin"
  /\ Forward # <<>>
  /\ Forward[1].lineNumber = 0
  /\ Forward[1].columnNumber # 0
  /\ call.result = TRUE

(***************************************************************************)
(* SourceMapManager.  The field op of outcome names the operation of the   *)
(* step that led to a state, so a step is an attachSourceMap(c, ...) when  *)
(* outcome' says so.                                                       *)
(***************************************************************************)
Recorded(client) == hasClientData(clientData, client)

\* C17: attachSourceMap(client, ...) throws exactly when the client is recorded, that
\* is after an attachSourceMap for it with a non-empty source map URL and no
\* detachSourceMap for it since (setEnabled, inspectedURLChanged and the completion
\* of loads keep the client recorded, an attachSourceMap without a source map URL
\* records nothing); when it throws, the client data, the source-map-to-client map
\* and the dispatched events are unchanged; after detachSourceMap(client) the client
\* is not recorded, so that a new attachSourceMap for it succeeds.
C17_Attach ==
  [][\A client \in Clients :
       LET attaches == outcome'.op = "attachSourceMap" /\ outcome'.client = client
           detaches == outcome'.op = "detachSourceMap" /\ outcome'.client = client
       IN  /\ (attaches =>
                 /\ (outcome'.threw <=> Recorded(client))
                 /\ (outcome'.threw =>
                       UNCHANGED <<clientData, sourceMaps, events, loads, isEnabled>>)
                 /\ (~outcome'.threw =>
                       (hasClientData(clientData', client)
                          <=> outcome'.relativeSourceMapURL # Undefined)))
           /\ (detaches => ~hasClientData(clientData', client))
           /\ (~attaches /\ ~detaches =>
                 (hasClientData(clientData', client) <=> Recorded(client)))
    ]_vars

\* attachSourceMap threw for a client whose source map is attached
C17_Witness ==
  /\ outcome.op = "attachSourceMap"
  /\ outcome.threw
  /\ Recorded(outcome.client)
  /\ getClientData(clientData, outcome.client).sourceMap # 0

\* the source map is attached to the client, in both maps of the manager
Attached(client, sourceMap) ==
  /\ sourceMapForClient(Manager, client) = sourceMap
  /\ clientForSourceMap(Manager, sourceMap) = client

\* the promise was handed out for no recorded attachment, or its load failed
ResolvesToUndefined(resolution) ==
  \/ resolution.load = 0
  \/ loads[resolution.load].state = "rejected"

\* C18 as stated: whenever a promise obtained from sourceMapForClientPromise(client)
\* resolves to a defined source map m, m is at that moment attached to client
\* (sourceMapForClient(client) is m and clientForSourceMap(m) is client); it
\* resolves to undefined for a client with no recorded attachment and for a failed
\* load.
C18_Original ==
  \A resolution \in outcome.resolved :
    /\ (resolution.value # 0 => Attached(resolution.client, resolution.value))
    /\ (ResolvesToUndefined(resolution) => resolution.value = 0)

\* C18, amended: whenever a promise obtained from sourceMapForClientPromise(client)
\* resolves to a defined source map m, m is the map returned by the load that the
\* attachment recorded for client at the time of the call started; m is at that
\* moment attached to client if that attachment is still the one recorded for
\* client, and is attached to no client if the client was detached or re-attached
\* in between; the promise resolves to undefined for a client with no recorded
\* attachment and for a failed load.
C18_Promise ==
  \A resolution \in outcome.resolved :
    /\ (resolution.value # 0 =>
          /\ resolution.value = resolution.load
          /\ loads[resolution.load].state = "fulfilled"
          /\ (isCurrent(Manager, resolution.load) =>
                Attached(resolution.client, resolution.value))
          /\ (~isCurrent(Manager, resolution.load) =>
                /\ sourceMapForClient(Manager, resolution.client) # resolution.value
                /\ clientForSourceMap(Manager, resolution.value) = Undefined))
    /\ (resolution.load # 0 /\ loads[resolution.load].state = "fulfilled" =>
          resolution.value = resolution.load)
    /\ (ResolvesToUndefined(resolution) => resolution.value = 0)

\* a promise resolved to the map of a load whose client was re-attached in between
C18_Witness ==
  \E resolution \in outcome.resolved :
    /\ resolution.value # 0
    /\ ~isCurrent(Manager, resolution.load)
    /\ Recorded(resolution.client)

(***************************************************************************)
(* Materialization.  The segments of a mappings string are separated by    *)
(* one ',' or ';' each.                                                    *)
(***************************************************************************)
SegmentCount(string) ==
  IF string = <<>> THEN 0
  ELSE 1 + Cardinality({i \in 1..Len(string) : isSeparator(string[i])})

RECURSIVE SegmentsUpTo(_)
SegmentsUpTo(k) ==
  IF k = 0 THEN 0 ELSE SegmentsUpTo(k - 1) + SegmentCount(SectionMaps[k].mappings)

Items == call.items

\* the sum of the field of the segments 1..j that have it
RECURSIVE FieldSum(_, _)
FieldSum(j, field) ==
  IF j = 0 THEN 0
  ELSE FieldSum(j - 1, field)
         + (IF Len(Items[j].segment) >= field THEN Items[j].segment[field] ELSE 0)

RECURSIVE LineOf(_)
LineOf(j) ==
  IF j = 0 THEN call.offset.line
  ELSE LineOf(j - 1) + Cardinality({k \in 1..Len(Items[j].separator) :
                                     Items[j].separator[k] = ";"})

\* the column deltas of the segments of the line of segment j, up to j
RECURSIVE ColumnSum(_, _)
ColumnSum(i, j) ==
  IF i = 0 THEN 0
  ELSE ColumnSum(i - 1, j) + (IF LineOf(i) = LineOf(j) THEN Items[i].segment[1] ELSE 0)

ColumnOf(j) ==
  (IF LineOf(j) = call.offset.line THEN call.offset.column ELSE 0) + ColumnSum(j, j)

ReferenceEntry(j) ==
  IF Len(Items[j].segment) = 1
  THEN SourceMapEntry(LineOf(j), ColumnOf(j), Undefined, Null, Null, Undefined)
  ELSE SourceMapEntry(LineOf(j), ColumnOf(j),
         elementOrUndefined(<<"http://h/a.ts", "http://h/b.ts">>, FieldSum(j, 2)),
         Some(FieldSum(j, 3)), Some(FieldSum(j, 4)),
         IF Len(Items[j].segment) = 5 THEN elementOrUndefined(ParseNames, FieldSum(j, 5))
         ELSE Undefined)

Reference == [j \in 1..Len(Items) |-> ReferenceEntry(j)]

Occurrences(entries, entry) == Cardinality({i \in 1..Len(entries) : entries[i] = entry})

SameEntries(a, b) ==
  /\ Len(a) = Len(b)
  /\ \A i \in 1..Len(a) : Occurrences(a, a[i]) = Occurrences(b, a[i])

\* C20: for a mappings string whose segments have 1, 4 or 5 fields, parseMap at the
\* section offset (L, C) adds to the entries exactly one entry per segment, that of
\* the reference decoding: the line starts at L and grows by one per ';', the column
\* starts at C, is 0 again after each ';' and otherwise adds up its deltas, the source
\* index, source line, source column and name index add up their deltas over the
\* whole string; a 1-field segment gives an entry without source, a 4-field segment
\* one with a source position and no name, a 5-field segment one with
\* names[nameIndex] too.  (parseMap then sorts the entries by position.)
C20_ParseMap ==
  call.op = "parseMap" => SameEntries(call.result, call.mappings \o Reference)

\* parseMap decoded, at offset (1, 2) and after an earlier section, a 5-field, a
\* 1-field and a 4-field segment, the last one on a later line
C20_Witness ==
  /\ call.op = "parseMap"
  /\ call.offset = Offset(1, 2)
  /\ call.mappings # <<>>
  /\ Len(Items) = 3
  /\ Len(Items[1].segment) = 5
  /\ Len(Items[2].segment) = 1
  /\ Len(Items[3].segment) = 4
  /\ Items[3].separator = <<";">>
  /\ Len(call.result) = 4

(***************************************************************************)
(* The reference decoding of a VLQ field: the digit of a character is its  *)
(* place in the base64 alphabet, 0 for any other character and behind the  *)
(* end of the string; the field ends with the first digit below 32.        *)
(***************************************************************************)
DigitAt(k) ==
  IF call.position + k < Len(call.string)
     /\ \E i \in 1..64 : base64Digits[i] = call.string[call.position + k + 1]
  THEN (CHOOSE i \in 1..64 : base64Digits[i] = call.string[call.position + k + 1]) - 1
  ELSE 0

\* the 0-based place of the last character of the field
LastOfField == CHOOSE k \in 0..MaxFieldLength : DigitAt(k) < 32 /\ \A i \in 0..(k - 1) : DigitAt(i) >= 32

RECURSIVE Assembled(_)
Assembled(k) ==
  IF k < 0 THEN 0 ELSE Assembled(k - 1) + (DigitAt(k) % 32) * 32 ^ k

FieldValue ==
  IF Assembled(LastOfField) % 2 = 1
  THEN 0 - (Assembled(LastOfField) - 1) \div 2
  ELSE Assembled(LastOfField) \div 2

IsField(string) == call.position = 0 /\ call.string = string

\* C21: decodeVLQ decodes a base64 VLQ field least-significant group first, with 5
\* data bits and one continuation bit per character and the lowest bit of the
\* assembled value as sign: 'A' gives 0, 'C' gives 1, 'D' gives -1, a field of several
\* characters with continuation bits gives the magnitude of its digits, and a
\* character outside the base64 alphabet counts as digit 0; the iterator ends behind
\* the last character of the field.
C21_DecodeVLQ ==
  call.op = "decodeVLQ" =>
    /\ call.result = FieldValue
    /\ call.next = call.position + LastOfField + 1
    /\ IsField(<<"A">>) => call.result = 0
    /\ IsField(<<"C">>) => call.result = 1
    /\ IsField(<<"D">>) => call.result = -1
    /\ IsField(<<"g", "B">>) => call.result = 16
    /\ IsField(<<"h", "B">>) => call.result = -16
    /\ IsField(<<"j", "g", "B">>) => call.result = -513
    /\ IsField(<<"!">>) => call.result = 0
    /\ IsField(<<"h", "=", "D">>) => call.result = 0 /\ call.next = 2

\* decodeVLQ has decoded a negative field of three characters
C21_Witness ==
  /\ call.op = "decodeVLQ"
  /\ IsField(<<"j", "g", "B">>)
  /\ call.result = -513
  /\ call.next = 3

\* the reverse index recorded for a source URL
ReverseIndex(url) == reversedMappings(sourceInfos, url)

NotAfterInSource(i, j) ==
  \/ SourceLine(i) < SourceLine(j)
  \/ /\ SourceLine(i) = SourceLine(j)
     /\ \/ SourceColumn(i) < SourceColumn(j)
        \/ /\ SourceColumn(i) = SourceColumn(j)
           /\ NotAfter(Forward[i].lineNumber, Forward[i].columnNumber,
                       Forward[j].lineNumber, Forward[j].columnNumber)

\* C22: after materialization, for every source URL the reverse index is a
\* permutation of exactly the forward indices of the entries whose sourceURL is that
\* URL (none missing, none twice, none of another source), in non-decreasing order
\* of (sourceLine, sourceColumn, generatedLine, generatedColumn); an entry without
\* sourceURL is in no reverse index.
C22_ReverseIndex ==
  Materialized =>
    \A n \in 1..Len(sourceInfos) :
      LET reverse == ReverseIndex(sourceInfos[n].url)
      IN  /\ Len(reverse) = Cardinality(EntriesOf(sourceInfos[n].url))
          /\ {reverse[i] + 1 : i \in 1..Len(reverse)} = EntriesOf(sourceInfos[n].url)
          /\ \A i \in 1..Len(reverse) : Forward[reverse[i] + 1].sourceURL # Undefined
          /\ \A i, j \in 1..Len(reverse) :
                i < j => NotAfterInSource(reverse[i] + 1, reverse[j] + 1)

\* a materialized map with an entry without source and a source whose reverse index
\* is not in forward order
C22_Witness ==
  /\ Materialized
  /\ \E k \in 1..Len(Forward) : Forward[k].sourceURL = Undefined
  /\ \E n \in 1..Len(sourceInfos) :
       LET reverse == ReverseIndex(sourceInfos[n].url)
       IN  \E i, j \in 1..Len(reverse) : i < j /\ reverse[i] > reverse[j]

\* C23: in every materialized map each entry has sourceLine and sourceColumn defined
\* if and only if it has a sourceURL, also when the accumulated source index falls
\* outside the sources list.
C23_Original ==
  Materialized =>
    \A k \in 1..Len(Forward) :
      (Forward[k].sourceLineNumber # Null /\ Forward[k].sourceColumnNumber # Null)
        <=> Forward[k].sourceURL # Undefined

\* the content the payload gives for the source at a place
ContentAt(place) ==
  IF SectionMaps[place[1]].sourcesContent = Null THEN Null
  ELSE Some(At(SectionMaps[place[1]].sourcesContent[1], place[2]))

RecordedURLs == {sourceInfos[n].url : n \in 1..Len(sourceInfos)}

\* C24: when the same resolved source URL occurs more than once, in one sources list
\* or across sections, the first occurrence wins: the content and the ignoreListHint
\* recorded for the URL are those of its first occurrence in section order, and
\* sourceURLs() lists each URL exactly once, in the order of first occurrence.
C24_FirstOccurrenceWins ==
  json # Null =>
    /\ RecordedURLs = {ResolvedAt(place) : place \in Places}
    /\ \A n \in 1..Len(sourceInfos) :
         /\ sourceInfos[n].content = ContentAt(FirstPlaceOf(sourceInfos[n].url))
         /\ sourceInfos[n].ignoreListHint = Listed(FirstPlaceOf(sourceInfos[n].url))
         /\ \A m \in 1..Len(sourceInfos) :
              m < n => /\ sourceInfos[m].url # sourceInfos[n].url
                       /\ EarlierPlace(FirstPlaceOf(sourceInfos[m].url),
                                       FirstPlaceOf(sourceInfos[n].url))
    /\ call.op = "sourceURLs" =>
         call.result = [n \in 1..Len(sourceInfos) |-> sourceInfos[n].url]
    /\ call.op = "embeddedContentByURL" =>
         call.result = IF call.sourceURL \in RecordedURLs
                       THEN ContentAt(FirstPlaceOf(call.sourceURL))
                       ELSE Null

\* sourceURLs() was called on a map whose only URL is listed twice, with two contents
\* and with the second occurrence only in the ignore list
C24_Witness ==
  /\ json # Null
  /\ call.op = "sourceURLs"
  /\ Len(call.result) = 1
  /\ Cardinality(PlacesOf(call.result[1])) = 2
  /\ \E p \in PlacesOf(call.result[1]) :
       /\ ContentAt(p) # ContentAt(FirstPlaceOf(call.result[1]))
       /\ Listed(p) # Listed(FirstPlaceOf(call.result[1]))

(***************************************************************************)
(* The loads of a SourceMapManager and its events.  Every load is started  *)
(* right after a SourceMapWillAttach, so the load numbered l belongs to    *)
(* the l-th SourceMapWillAttach in the sequence of events.                 *)
(***************************************************************************)
WillAttachOf(load) ==
  CHOOSE i \in 1..Len(events) :
    /\ events[i].type = "SourceMapWillAttach"
    /\ Cardinality({j \in 1..i : events[j].type = "SourceMapWillAttach"}) = load

\* an event for the client of the load was dispatched after the load was started:
\* for a pending load, its client was detached (and perhaps attached again) since
Superseded(load) ==
  \E j \in (WillAttachOf(load) + 1)..Len(events) : events[j].client = loads[load].client

\* the step settles the load
Settles(load) == loads[load].state = "pending" /\ loads'[load].state # "pending"

\* C25: a source map load that completes, with a map or with an error, after its
\* client was detached or re-attached (by the caller, by setEnabled or by
\* inspectedURLChanged) has no effect on the manager: it sets no client's source map,
\* adds nothing to the source-map-to-client map and dispatches no event; only the
\* load started by the client's current attachment attaches a map.
C25_StaleLoad ==
  [][/\ \A load \in 1..Len(loads) :
          Settles(load) /\ Superseded(load) =>
            UNCHANGED <<clientData, sourceMaps, events, isEnabled, inspectedURL>>
     /\ \A entry \in sourceMaps' \ sourceMaps :
          /\ entry.sourceMap \in 1..Len(loads)
          /\ Settles(entry.sourceMap)
          /\ ~Superseded(entry.sourceMap)
          /\ loads'[entry.sourceMap].state = "fulfilled"
          /\ entry.client = loads[entry.sourceMap].client
          /\ sourceMapForClient([clientData |-> clientData'], entry.client) = entry.sourceMap
     /\ \A client \in Clients :
          sourceMapForClient([clientData |-> clientData'], client)
              # sourceMapForClient([clientData |-> clientData], client)
            => \/ sourceMapForClient([clientData |-> clientData'], client) = 0
               \/ [sourceMap |-> sourceMapForClient([clientData |-> clientData'], client),
                    client |-> client] \in sourceMaps' \ sourceMaps
    ]_vars

\* a load returned its map after its client was attached again, and the client's
\* later load is still pending
C25_Witness ==
  /\ outcome.op = "load"
  /\ \E load \in 1..Len(loads) :
       /\ loads[load].state = "fulfilled"
       /\ loads[load].client = outcome.client
       /\ Recorded(outcome.client)
       /\ getClientData(clientData, outcome.client).load > load
       /\ loads[getClientData(clientData, outcome.client).load].state = "pending"
       /\ \A i \in 1..Len(events) : events[i].type # "SourceMapAttached"

(***************************************************************************)
(* The protocol of the events of one client: after the first n events the  *)
(* client is idle, waiting (a SourceMapWillAttach is unanswered), attached *)
(* (to map) or, once an event came out of turn, broken.                    *)
(***************************************************************************)
Phase(phase, map) == [phase |-> phase, map |-> map]

AfterEvent(before, event) ==
  IF before.phase = "broken" THEN before
  ELSE IF event.type = "SourceMapWillAttach"
  THEN IF before.phase = "waiting" THEN Phase("broken", 0) ELSE Phase("waiting", 0)
  ELSE IF event.type = "SourceMapAttached"
  THEN IF before.phase = "waiting" THEN Phase("attached", event.sourceMap)
       ELSE Phase("broken", 0)
  ELSE IF event.type = "SourceMapFailedToAttach"
  THEN IF before.phase = "waiting" THEN Phase("idle", 0) ELSE Phase("broken", 0)
  ELSE IF before.phase = "attached" /\ before.map = event.sourceMap THEN Phase("idle", 0)
  ELSE Phase("broken", 0)

RECURSIVE ProtocolState(_, _)
ProtocolState(client, n) ==
  IF n = 0 THEN Phase("idle", 0)
  ELSE IF events[n].client # client THEN ProtocolState(client, n - 1)
  ELSE AfterEvent(ProtocolState(client, n - 1), events[n])

\* C26: for each client the events of the manager follow the protocol
\* SourceMapWillAttach, then exactly one of SourceMapAttached (followed later by at
\* most one SourceMapDetached for the same map) or a single SourceMapFailedToAttach:
\* no SourceMapAttached or SourceMapFailedToAttach without a preceding unanswered
\* SourceMapWillAttach for the client, and no SourceMapWillAttach answered twice.
C26_Original ==
  \A client \in Clients : ProtocolState(client, Len(events)).phase # "broken"

\* C27: in every reachable state of the manager its two maps agree:
\* clientForSourceMap(m) is the client c if and only if sourceMapForClient(c) is m,
\* so no source map is registered for a detached client and no two clients share a
\* source map.
C27_MapsAgree ==
  /\ \A client \in Clients : \A sourceMap \in 1..Len(loads) :
       clientForSourceMap(Manager, sourceMap) = client
         <=> sourceMapForClient(Manager, client) = sourceMap
  /\ \A entry \in sourceMaps : Recorded(entry.client)
  /\ \A entry1, entry2 \in sourceMaps :
       (entry1.sourceMap = entry2.sourceMap \/ entry1.client = entry2.client)
         => entry1 = entry2

\* one client has a source map attached, after the map of the other client was
\* detached
C27_Witness ==
  /\ Cardinality(sourceMaps) = 1
  /\ \E client \in Clients :
       /\ sourceMapForClient(Manager, client) # 0
       /\ clientForSourceMap(Manager, sourceMapForClient(Manager, client)) = client
       /\ \E i \in 1..Len(events) :
            /\ events[i].type = "SourceMapDetached"
            /\ events[i].client # client
            /\ clientForSourceMap(Manager, events[i].sourceMap) = Undefined

\* the recorded clients with their relative URLs
RecordedURLsOf(data) ==
  {<<data[k].client, data[k].relativeSourceURL, data[k].relativeSourceMapURL>> :
     k \in 1..Len(data)}

\* C28: while the manager is disabled no client has a source map attached:
\* sourceMapForClient is undefined for every client and no SourceMapAttached is
\* dispatched, also when loads started before the disabling complete afterwards;
\* setEnabled keeps the set of recorded clients and their relative URLs, and
\* setEnabled with the current value changes nothing and dispatches no event.
C28_Disabled ==
  [][/\ ~isEnabled' =>
          /\ \A client \in Clients :
               sourceMapForClient([clientData |-> clientData'], client) = 0
          /\ sourceMaps' = {}
          /\ \A i \in (Len(events) + 1)..Len(events') :
               events'[i].type # "SourceMapAttached"
     /\ outcome'.op = "setEnabled" =>
          /\ RecordedURLsOf(clientData') = RecordedURLsOf(clientData)
          /\ Len(clientData') = Len(clientData)
          /\ ~outcome'.threw
          /\ isEnabled' = isEnabled =>
                UNCHANGED <<clientData, sourceMaps, events, loads, inspectedURL>>
    ]_vars

\* the manager is disabled and a load started before the disabling has just returned
\* its map; its client is still recorded
C28_Witness ==
  /\ ~isEnabled
  /\ outcome.op = "load"
  /\ Recorded(outcome.client)
  /\ \E load \in 1..Len(loads) :
       loads[load].client = outcome.client /\ loads[load].state = "fulfilled"
  /\ \A i \in 1..Len(events) : events[i].type # "SourceMapAttached"

\* the n-th event is a SourceMapWillAttach
WillAttach(n) == n <= Len(events) /\ events[n].type = "SourceMapWillAttach"

\* a later event answers it: a SourceMapAttached or SourceMapFailedToAttach for its
\* client, or the SourceMapDetached of the client's detachment
Answered(n) ==
  \E j \in (n + 1)..Len(events) :
    /\ events[j].client = events[n].client
    /\ events[j].type \in {"SourceMapAttached", "SourceMapFailedToAttach", "SourceMapDetached"}

\* C29: when every started load eventually settles, every SourceMapWillAttach
\* dispatched for a client is eventually followed by a SourceMapAttached or a
\* SourceMapFailedToAttach for that client, or by the client's detachment.
C29_Answered == \A n \in 1..MaxEvents : WillAttach(n) ~> Answered(n)

\* the SourceMapWillAttach of a client was answered by the completion of its load,
\* while a SourceMapWillAttach of the other client is unanswered
C29_Witness ==
  /\ outcome.op = "load"
  /\ \E n \in 1..Len(events) :
       /\ WillAttach(n)
       /\ events[n].client = outcome.client
       /\ events[Len(events)].client = outcome.client
       /\ events[Len(events)].type \in {"SourceMapAttached", "SourceMapFailedToAttach"}
       /\ \A j \in (n + 1)..(Len(events) - 1) : events[j].client # outcome.client
  /\ \E n \in 1..Len(events) : WillAttach(n) /\ ~Answered(n)

\* C30: parseMap terminates for every mappings string over any characters, also one
\* that ends inside a VLQ field with the continuation bit set, one with trailing or
\* repeated separators and one with segments of 2 or 3 fields: an iteration of the
\* decode loop either leaves the loop or consumes at least one character, decodeVLQ
\* stops at the end of the string (the iterator never passes it by more than the
\* three fields read there), and so the loop is left after at most one iteration per
\* character and one more.
C30_Terminates ==
  [][~call.s.done =>
       /\ call'.s.done \/ call'.s.position > call.s.position
       /\ call'.s.position <= Len(call.string) + 3
       /\ call'.iterations <= Len(call.string) + 1
    ]_vars

\* the loop was left on a string that has a segment of 2 or 3 fields, then repeated
\* separators, and ends inside a field with the continuation bit set
C30_Witness ==
  /\ call.op = "parseMap"
  /\ call.s.done
  /\ Len(call.string) = MaxMappingsLength
  /\ call.string[1] \in {"A", "D"}
  /\ call.string[2] \in {"A", "D"}
  /\ isSeparator(call.string[3])
  /\ isSeparator(call.string[4])
  /\ call.string[5] = "g"
  /\ call.s.position > Len(call.string)
  /\ call.iterations = Len(call.s.mappings) + 1

====
